---- MODULE Spec2Model ----
(***************************************************************************)
(* The OAuth 2.1 authorization server of server/src/mcp-oauth.ts: the      *)
(* client registry, authorization codes with PKCE, access/refresh token    *)
(* pairs, revocation and the expiry sweep, over a shared PostgreSQL store. *)
(*                                                                         *)
(* Every exported function is an async function; each `await pool.query`   *)
(* is a point where other requests run.  A request is a process whose pc   *)
(* names the query it is waiting for; one step of the model is one query   *)
(* executed by the store together with the synchronous code that runs on   *)
(* its reply, up to the next query or the return.                          *)
(*                                                                         *)
(* The clock counts seconds (the source counts milliseconds; every         *)
(* duration of the source is a whole number of seconds).                   *)
(***************************************************************************)
EXTENDS Integers, Sequences, FiniteSets, TLC

\* ------------------------------------------------------------------ bounds
MaxCodes == 1     \* authorization codes issued in one behaviour
MaxPairs == 1     \* token pairs minted in one behaviour
MaxExchanges == 1 \* refresh exchanges made in one behaviour, beyond MaxPairs
MaxIssued == 2    \* codes and pairs together, in one behaviour of a sweep specification

Procs == {1, 2}   \* requests in flight at once

\* ------------------------------------------------------- program constants
TOKEN_EXPIRY_MS == 60 * 60                    \* 1 hour, in seconds
REFRESH_TOKEN_EXPIRY_MS == 30 * 24 * 60 * 60  \* 30 days, in seconds
AUTH_CODE_EXPIRY_MS == 10 * 60                \* 10 minutes, in seconds

\* ------------------------------------------------------------- JS values
Undefined == "<undefined>"   \* an omitted optional argument
Null == "<null>"             \* SQL NULL / JS null
Falsy(x) == x \in {Undefined, Null, ""}
\* `x || null` of the INSERT parameter lists
OrNull(x) == IF Falsy(x) THEN Null ELSE x

\* crypto.createHash('sha256').update(v).digest('base64url'), collision free
\* on the verifiers of the model
Sha256Base64Url(v) == "sha256:" \o v

ClientIds == {"clientA", "clientB"}
RedirectUris == {"https://a/cb", "https://b/cb"}
Verifiers == {"verifier123", "other"}
VerifierArgs == Verifiers \cup {Undefined, ""}

\* The authorization requests the authorization endpoint passes on to
\* generateAuthorizationCode: (clientId, redirectUri, codeChallenge,
\* codeChallengeMethod, scope, resource).
PkceRequest ==
  [clientId |-> "clientA", redirectUri |-> "https://a/cb",
   codeChallenge |-> Sha256Base64Url("verifier123"),
   codeChallengeMethod |-> "S256", scope |-> "read", resource |-> "https://api"]

\* Authorization requests that send one challenge with each method the
\* authorization endpoint can pass on: none, 'plain' and 'S256'.
ChallengeRequests ==
  { [PkceRequest EXCEPT !.codeChallengeMethod = method] :
      method \in {Undefined, "plain", "S256"} }

AuthRequests ==
  { PkceRequest,
    [clientId |-> "clientA", redirectUri |-> "https://a/cb",
     codeChallenge |-> Undefined, codeChallengeMethod |-> Undefined,
     scope |-> Undefined, resource |-> Undefined],
    [clientId |-> "clientB", redirectUri |-> "https://b/cb",
     codeChallenge |-> Sha256Base64Url("verifier123"),
     codeChallengeMethod |-> "plain", scope |-> "", resource |-> ""],
    [clientId |-> "clientB", redirectUri |-> "https://a/cb",
     codeChallenge |-> "", codeChallengeMethod |-> "S256",
     scope |-> "read", resource |-> Undefined] }

\* crypto.randomBytes(32).toString('hex'): the n-th code issued is the value
\* n, never drawn before.  Code 0 is a value that is never issued.
NeverIssued == 0

\* process.env as a server process finds it: neither variable set, the
\* secret set (the id set to "", which reads as unset under `||`), or both
\* set, the id to one that dynamic registration hands out.
Unset == [MCP_OAUTH_CLIENT_ID |-> Undefined, MCP_OAUTH_CLIENT_SECRET |-> Undefined]

Environments ==
  { Unset,
    [MCP_OAUTH_CLIENT_ID |-> "", MCP_OAUTH_CLIENT_SECRET |-> "rotated-secret"],
    [MCP_OAUTH_CLIENT_ID |-> "client_1", MCP_OAUTH_CLIENT_SECRET |-> "custom-secret"] }

\* getOAuthCredentials(): process.env.X || default
getOAuthCredentials(e) ==
  [clientId |-> IF Falsy(e.MCP_OAUTH_CLIENT_ID)
                THEN "chatgpt-mcp-client" ELSE e.MCP_OAUTH_CLIENT_ID,
   clientSecret |-> IF Falsy(e.MCP_OAUTH_CLIENT_SECRET)
                    THEN "chatgpt-mcp-secret-key-2024" ELSE e.MCP_OAUTH_CLIENT_SECRET]

VARIABLES
  now,       \* the clock (Date.now(), in seconds)
  codes,     \* table mcp_auth_codes: code -> row
  proc,      \* the requests in flight: process -> call frame
  access,    \* table mcp_access_tokens: token -> row
  refresh,   \* table mcp_refresh_tokens: token -> row
  issued,    \* history: code -> what generateAuthorizationCode was given
  consumed,  \* history: codes some validateAuthorizationCode returned valid for
  pairs,     \* history: n -> what the n-th generateTokenPair was given and drew
  revoked,   \* history: refresh tokens some revokeRefreshToken returned for
  env,       \* process.env: the two variables getOAuthCredentials reads
  clients,   \* table mcp_oauth_clients: client_id -> row
  registered \* history: client_id -> what registerClient returned for it

vars == <<now, codes, access, refresh, proc, issued, consumed, pairs, revoked,
          env, clients, registered>>
store == <<codes, access, refresh>>
history == <<issued, consumed, pairs, revoked>>
registry == <<env, clients, registered>>

NoRow == [absent |-> TRUE]
NoRet == [pending |-> TRUE]
Thrown == [thrown |-> TRUE]        \* the function rejected (throw error)
\* A call frame: the function, the query it waits for, its arguments and
\* locals, the row its SELECT returned, the `new Date()` it compared the row's
\* expiry with, what it returned, and (history) whether the call began after
\* its code was consumed or its token revoked.
Idle == [op |-> "none", pc |-> "idle", a |-> <<>>, after |-> FALSE,
         row |-> NoRow, date |-> 0, ret |-> NoRet]

\* A process accepts a new request when it runs none.
Free(p) == proc[p].pc \in {"idle", "done"}

Done(p, r) == [proc[p] EXCEPT !.pc = "done", !.ret = r]

Init ==
  /\ now = 0
  /\ codes = <<>>
  /\ access = <<>>
  /\ refresh = <<>>
  /\ proc = [p \in Procs |-> Idle]
  /\ issued = <<>>
  /\ consumed = {}
  /\ pairs = <<>>
  /\ revoked = {}
  /\ env = Unset
  /\ clients = <<>>
  /\ registered = <<>>

\* ------------------------------------------------------------------ clock
Expiries ==
  {issued[c].expiresAt : c \in DOMAIN issued}
    \cup {pairs[n].accessExpiresAt : n \in DOMAIN pairs}
    \cup {pairs[n].refreshExpiresAt : n \in DOMAIN pairs}

\* The clock moves on to the expiry of some row, or to the second after it.
TickTargets == {t \in Expiries \cup {e + 1 : e \in Expiries} : t > now}

Tick ==
  /\ \E t \in TickTargets : now' = t
  /\ UNCHANGED <<registry, store, proc, history>>

\* ------------------------------------------------ generateAuthorizationCode
\* Mutant of CodeRow: scope and resource change places in the parameter list.
CodeRowSwapped(req, expiresAt) ==
  [client_id |-> req.clientId,
   redirect_uri |-> req.redirectUri,
   code_challenge |-> OrNull(req.codeChallenge),
   code_challenge_method |-> OrNull(req.codeChallengeMethod),
   expires_at |-> expiresAt,
   scope |-> OrNull(req.resource),
   resource |-> OrNull(req.scope)]

\* One INSERT; expiresAt = Date.now() + AUTH_CODE_EXPIRY_MS.
CodeRow(req, expiresAt) ==
  [client_id |-> req.clientId,
   redirect_uri |-> req.redirectUri,
   code_challenge |-> OrNull(req.codeChallenge),
   code_challenge_method |-> OrNull(req.codeChallengeMethod),
   expires_at |-> expiresAt,
   scope |-> OrNull(req.scope),
   resource |-> OrNull(req.resource)]

\* Mutant of GenerateAuthorizationCodeUpTo: the row is inserted only for a
\* clientId that has a row in the table of clients or is the client id of
\* the environment.
GenerateAuthorizationCodeForKnownClient(p, requests, limit) ==
  /\ Free(p)
  /\ Cardinality(DOMAIN issued) < limit
  /\ \E req \in requests :
       LET code == Cardinality(DOMAIN issued) + 1
           expiresAt == now + AUTH_CODE_EXPIRY_MS
           known == \/ req.clientId \in DOMAIN clients
                    \/ req.clientId = getOAuthCredentials(env).clientId
       IN /\ codes' = IF known THEN (code :> CodeRow(req, expiresAt)) @@ codes
                      ELSE codes
          /\ issued' = (code :> [req |-> req, expiresAt |-> expiresAt]) @@ issued
          /\ proc' = [proc EXCEPT ![p] =
                        [op |-> "generateAuthorizationCode", pc |-> "done",
                         a |-> req, after |-> FALSE, row |-> NoRow,
                         date |-> 0, ret |-> [code |-> code]]]
  /\ UNCHANGED <<registry, now, access, refresh, consumed, pairs, revoked>>

\* `limit` bounds the codes issued in one behaviour.
GenerateAuthorizationCodeUpTo(p, requests, limit) ==
  /\ Free(p)
  /\ Cardinality(DOMAIN issued) < limit
  /\ \E req \in requests :
       LET code == Cardinality(DOMAIN issued) + 1
           expiresAt == now + AUTH_CODE_EXPIRY_MS
       IN /\ codes' = (code :> CodeRow(req, expiresAt)) @@ codes
          /\ issued' = (code :> [req |-> req, expiresAt |-> expiresAt]) @@ issued
          /\ proc' = [proc EXCEPT ![p] =
                        [op |-> "generateAuthorizationCode", pc |-> "done",
                         a |-> req, after |-> FALSE, row |-> NoRow,
                         date |-> 0, ret |-> [code |-> code]]]
  /\ UNCHANGED <<registry, now, access, refresh, consumed, pairs, revoked>>

GenerateAuthorizationCode(p, requests) ==
  GenerateAuthorizationCodeUpTo(p, requests, MaxCodes)

\* The INSERT rejects: the catch block rethrows.
GenerateAuthorizationCodeFails(p, requests) ==
  /\ Free(p)
  /\ \E req \in requests :
       proc' = [proc EXCEPT ![p] =
                  [op |-> "generateAuthorizationCode", pc |-> "done",
                   a |-> req, after |-> FALSE, row |-> NoRow, date |-> 0, ret |-> Thrown]]
  /\ UNCHANGED <<registry, now, store, history>>

\* ------------------------------------------------ validateAuthorizationCode
CodeResult(valid, error, scope, resource) ==
  [valid |-> valid, error |-> error, scope |-> scope, resource |-> resource]
CodeError(error) == CodeResult(FALSE, error, Undefined, Undefined)

\* What a token request presents for a code: (code, clientId, redirectUri,
\* codeVerifier).  Only a code that generateAuthorizationCode has returned, or
\* a value that was never issued, can be presented.
Presentation(code, clientId, redirectUri, codeVerifier) ==
  [code |-> code, clientId |-> clientId, redirectUri |-> redirectUri,
   codeVerifier |-> codeVerifier]

AnyPresentation ==
  {Presentation(code, clientId, redirectUri, codeVerifier) :
     code \in DOMAIN issued \cup {NeverIssued}, clientId \in ClientIds,
     redirectUri \in RedirectUris, codeVerifier \in VerifierArgs}

\* The presentation of the client the code was issued to: its own id and
\* redirect URI, and the verifier behind its challenge if it sent one.
VerifierFor(req) ==
  IF \E v \in Verifiers : Sha256Base64Url(v) = req.codeChallenge
  THEN CHOOSE v \in Verifiers : Sha256Base64Url(v) = req.codeChallenge
  ELSE Undefined

CorrectPresentation(code) ==
  Presentation(code, issued[code].req.clientId, issued[code].req.redirectUri,
               VerifierFor(issued[code].req))

CorrectPresentations == {CorrectPresentation(code) : code \in DOMAIN issued}

\* Who presents codes: "anyone" presents anything, "owner" is the client the
\* code was issued to.
Presented(who) == IF who = "anyone" THEN AnyPresentation ELSE CorrectPresentations

\* The request arrives: SELECT * FROM mcp_auth_codes WHERE code = $1 is sent.
ValidateAuthorizationCodeCall(p, who) ==
  /\ Free(p)
  /\ \E a \in Presented(who) :
       proc' = [proc EXCEPT ![p] =
                  [op |-> "validateAuthorizationCode", pc |-> "select",
                   a |-> a, after |-> a.code \in consumed,
                   row |-> NoRow, date |-> 0, ret |-> NoRet]]
  /\ UNCHANGED <<registry, now, store, history>>

\* Mutants of CodeChecks: the expiry test as >=, the verifier compared
\* unhashed, the client check left out, the redirect check left out.
CodeChecksExpiredAtExpiry(authCode, a, date) ==
  IF date >= authCode.expires_at THEN "expired"
  ELSE IF authCode.client_id # a.clientId THEN "Client ID mismatch"
  ELSE IF authCode.redirect_uri # a.redirectUri THEN "Redirect URI mismatch"
  ELSE IF ~Falsy(authCode.code_challenge) /\ authCode.code_challenge_method = "S256"
       THEN IF Falsy(a.codeVerifier) THEN "Code verifier required"
            ELSE IF Sha256Base64Url(a.codeVerifier) # authCode.code_challenge
                 THEN "Invalid code verifier"
                 ELSE "consume"
       ELSE "consume"

\* Mutant of CodeChecks: the client is compared before the expiry.
CodeChecksClientFirst(authCode, a, date) ==
  IF authCode.client_id # a.clientId THEN "Client ID mismatch"
  ELSE IF date > authCode.expires_at THEN "expired"
  ELSE IF authCode.redirect_uri # a.redirectUri THEN "Redirect URI mismatch"
  ELSE IF ~Falsy(authCode.code_challenge) /\ authCode.code_challenge_method = "S256"
       THEN IF Falsy(a.codeVerifier) THEN "Code verifier required"
            ELSE IF Sha256Base64Url(a.codeVerifier) # authCode.code_challenge
                 THEN "Invalid code verifier"
                 ELSE "consume"
       ELSE "consume"

\* Mutant of CodeChecks: the verifier is checked whenever a challenge is
\* stored, whatever the method.
CodeChecksAnyMethod(authCode, a, date) ==
  IF date > authCode.expires_at THEN "expired"
  ELSE IF authCode.client_id # a.clientId THEN "Client ID mismatch"
  ELSE IF authCode.redirect_uri # a.redirectUri THEN "Redirect URI mismatch"
  ELSE IF ~Falsy(authCode.code_challenge)
       THEN IF Falsy(a.codeVerifier) THEN "Code verifier required"
            ELSE IF Sha256Base64Url(a.codeVerifier) # authCode.code_challenge
                 THEN "Invalid code verifier"
                 ELSE "consume"
       ELSE "consume"

CodeChecksUnhashed(authCode, a, date) ==
  IF date > authCode.expires_at THEN "expired"
  ELSE IF authCode.client_id # a.clientId THEN "Client ID mismatch"
  ELSE IF authCode.redirect_uri # a.redirectUri THEN "Redirect URI mismatch"
  ELSE IF ~Falsy(authCode.code_challenge) /\ authCode.code_challenge_method = "S256"
       THEN IF Falsy(a.codeVerifier) THEN "Code verifier required"
            ELSE IF a.codeVerifier # authCode.code_challenge
                 THEN "Invalid code verifier"
                 ELSE "consume"
       ELSE "consume"

CodeChecksNoClient(authCode, a, date) ==
  IF date > authCode.expires_at THEN "expired"
  ELSE IF authCode.redirect_uri # a.redirectUri THEN "Redirect URI mismatch"
  ELSE IF ~Falsy(authCode.code_challenge) /\ authCode.code_challenge_method = "S256"
       THEN IF Falsy(a.codeVerifier) THEN "Code verifier required"
            ELSE IF Sha256Base64Url(a.codeVerifier) # authCode.code_challenge
                 THEN "Invalid code verifier"
                 ELSE "consume"
       ELSE "consume"

CodeChecksNoRedirect(authCode, a, date) ==
  IF date > authCode.expires_at THEN "expired"
  ELSE IF authCode.client_id # a.clientId THEN "Client ID mismatch"
  ELSE IF ~Falsy(authCode.code_challenge) /\ authCode.code_challenge_method = "S256"
       THEN IF Falsy(a.codeVerifier) THEN "Code verifier required"
            ELSE IF Sha256Base64Url(a.codeVerifier) # authCode.code_challenge
                 THEN "Invalid code verifier"
                 ELSE "consume"
       ELSE "consume"

\* The checks between the SELECT's reply and the DELETE, in the source's
\* order; "consume" stands for reaching the DELETE of line 362.
CodeChecks(authCode, a, date) ==
  IF date > authCode.expires_at THEN "expired"
  ELSE IF authCode.client_id # a.clientId THEN "Client ID mismatch"
  ELSE IF authCode.redirect_uri # a.redirectUri THEN "Redirect URI mismatch"
  ELSE IF ~Falsy(authCode.code_challenge) /\ authCode.code_challenge_method = "S256"
       THEN IF Falsy(a.codeVerifier) THEN "Code verifier required"
            ELSE IF Sha256Base64Url(a.codeVerifier) # authCode.code_challenge
                 THEN "Invalid code verifier"
                 ELSE "consume"
       ELSE "consume"

\* Mutant of ValidateAuthorizationCodeSelect: a missing row is taken for an
\* expired one.
ValidateAuthorizationCodeSelectMissingExpired(p) ==
  /\ proc[p].op = "validateAuthorizationCode"
  /\ proc[p].pc = "select"
  /\ LET a == proc[p].a IN
       IF a.code \notin DOMAIN codes
       THEN proc' = [proc EXCEPT ![p].pc = "deleteExpired"]
       ELSE LET authCode == codes[a.code]
                verdict == CodeChecks(authCode, a, now)
            IN IF verdict = "expired"
               THEN proc' = [proc EXCEPT ![p].pc = "deleteExpired",
                                         ![p].row = authCode, ![p].date = now]
               ELSE IF verdict = "consume"
               THEN proc' = [proc EXCEPT ![p].pc = "deleteConsumed",
                                         ![p].row = authCode, ![p].date = now]
               ELSE proc' = [proc EXCEPT ![p] = [Done(p, CodeError(verdict))
                                                   EXCEPT !.row = authCode, !.date = now]]
  /\ UNCHANGED <<registry, now, store, history>>

\* Mutant of ValidateAuthorizationCodeSelect: a refused attempt burns the
\* code.
ValidateAuthorizationCodeSelectBurns(p) ==
  /\ proc[p].op = "validateAuthorizationCode"
  /\ proc[p].pc = "select"
  /\ LET a == proc[p].a IN
       IF a.code \notin DOMAIN codes
       THEN /\ proc' = [proc EXCEPT ![p] = Done(p, CodeError("Invalid authorization code"))]
            /\ codes' = codes
       ELSE LET authCode == codes[a.code]
                verdict == CodeChecks(authCode, a, now)
            IN IF verdict = "expired"
               THEN /\ proc' = [proc EXCEPT ![p].pc = "deleteExpired",
                                            ![p].row = authCode, ![p].date = now]
                    /\ codes' = codes
               ELSE IF verdict = "consume"
               THEN /\ proc' = [proc EXCEPT ![p].pc = "deleteConsumed",
                                            ![p].row = authCode, ![p].date = now]
                    /\ codes' = codes
               ELSE /\ proc' = [proc EXCEPT ![p] = [Done(p, CodeError(verdict))
                                                      EXCEPT !.row = authCode, !.date = now]]
                    /\ codes' = [k \in DOMAIN codes \ {a.code} |-> codes[k]]
  /\ UNCHANGED <<registry, now, access, refresh, history>>

\* The SELECT is answered and the code runs up to its next query or return.
ValidateAuthorizationCodeSelect(p) ==
  /\ proc[p].op = "validateAuthorizationCode"
  /\ proc[p].pc = "select"
  /\ LET a == proc[p].a IN
       IF a.code \notin DOMAIN codes
       THEN proc' = [proc EXCEPT ![p] = Done(p, CodeError("Invalid authorization code"))]
       ELSE LET authCode == codes[a.code]
                verdict == CodeChecks(authCode, a, now)
            IN IF verdict = "expired"
               THEN proc' = [proc EXCEPT ![p].pc = "deleteExpired",
                                         ![p].row = authCode, ![p].date = now]
               ELSE IF verdict = "consume"
               THEN proc' = [proc EXCEPT ![p].pc = "deleteConsumed",
                                         ![p].row = authCode, ![p].date = now]
               ELSE proc' = [proc EXCEPT ![p] = [Done(p, CodeError(verdict))
                                                   EXCEPT !.row = authCode, !.date = now]]
  /\ UNCHANGED <<registry, now, store, history>>

Remove(table, key) == [k \in DOMAIN table \ {key} |-> table[k]]

\* DELETE FROM mcp_auth_codes WHERE code = $1 of the expired branch, and the
\* return that follows it.
ValidateAuthorizationCodeDeleteExpired(p) ==
  /\ proc[p].op = "validateAuthorizationCode"
  /\ proc[p].pc = "deleteExpired"
  /\ codes' = Remove(codes, proc[p].a.code)
  /\ proc' = [proc EXCEPT ![p] = Done(p, CodeError("Authorization code expired"))]
  /\ UNCHANGED <<registry, now, access, refresh, history>>

\* Mutant of ValidateAuthorizationCodeConsume: the DELETE of line 362 is
\* left out.
ValidateAuthorizationCodeConsumeKeepsRow(p) ==
  /\ proc[p].op = "validateAuthorizationCode"
  /\ proc[p].pc = "deleteConsumed"
  /\ proc' = [proc EXCEPT ![p] =
                Done(p, CodeResult(TRUE, Undefined, proc[p].row.scope, proc[p].row.resource))]
  /\ consumed' = consumed \cup {proc[p].a.code}
  /\ UNCHANGED <<registry, now, store, issued, pairs, revoked>>

\* DELETE FROM mcp_auth_codes WHERE code = $1 of line 362, and the return of
\* the row's scope and resource.
ValidateAuthorizationCodeConsume(p) ==
  /\ proc[p].op = "validateAuthorizationCode"
  /\ proc[p].pc = "deleteConsumed"
  /\ codes' = Remove(codes, proc[p].a.code)
  /\ proc' = [proc EXCEPT ![p] =
                Done(p, CodeResult(TRUE, Undefined, proc[p].row.scope, proc[p].row.resource))]
  /\ consumed' = consumed \cup {proc[p].a.code}
  /\ UNCHANGED <<registry, now, access, refresh, issued, pairs, revoked>>

\* Any of the three queries rejects: the catch block rethrows.
ValidateAuthorizationCodeFails(p) ==
  /\ proc[p].op = "validateAuthorizationCode"
  /\ proc[p].pc \in {"select", "deleteExpired", "deleteConsumed"}
  /\ proc' = [proc EXCEPT ![p] = Done(p, Thrown)]
  /\ UNCHANGED <<registry, now, store, history>>

\* ------------------------------------------------------- generateTokenPair
\* crypto.randomBytes(32).toString('hex') for the n-th pair; token 0 of either
\* kind is a value that was never minted.
AccessTokenOf(n) == "access-" \o ToString(n)
RefreshTokenOf(n) == "refresh-" \o ToString(n)

\* The (clientId, scope, resource) the token endpoint mints for.
ScopedMint == [clientId |-> "clientA", scope |-> "read", resource |-> "https://api"]

MintRequests ==
  { ScopedMint,
    [clientId |-> "clientB", scope |-> Undefined, resource |-> ""] }

\* Mutant of AccessRow: the row links to the access token itself instead of
\* the refresh token.
AccessRowWrongLink(a) ==
  [client_id |-> a.clientId, expires_at |-> a.accessExpiresAt,
   scope |-> OrNull(a.scope), resource |-> OrNull(a.resource),
   refresh_token |-> a.accessToken]

AccessRow(a) ==
  [client_id |-> a.clientId, expires_at |-> a.accessExpiresAt,
   scope |-> OrNull(a.scope), resource |-> OrNull(a.resource),
   refresh_token |-> a.refreshToken]

\* Mutant of RefreshRow: the refresh row is stored with the access expiry.
RefreshRowAccessExpiry(a) ==
  [client_id |-> a.clientId, expires_at |-> a.accessExpiresAt,
   scope |-> OrNull(a.scope), resource |-> OrNull(a.resource),
   access_token |-> a.accessToken]

RefreshRow(a) ==
  [client_id |-> a.clientId, expires_at |-> a.refreshExpiresAt,
   scope |-> OrNull(a.scope), resource |-> OrNull(a.resource),
   access_token |-> a.accessToken]

\* The call: both values are drawn, both expiries computed from Date.now(),
\* and the first INSERT is sent.  `limit` bounds the pairs minted in one
\* behaviour.
GenerateTokenPairCallUpTo(p, requests, limit) ==
  /\ Free(p)
  /\ Cardinality(DOMAIN pairs) < limit
  /\ \E req \in requests :
       LET n == Cardinality(DOMAIN pairs) + 1
           a == [clientId |-> req.clientId, scope |-> req.scope,
                 resource |-> req.resource,
                 accessToken |-> AccessTokenOf(n),
                 refreshToken |-> RefreshTokenOf(n),
                 accessExpiresAt |-> now + TOKEN_EXPIRY_MS,
                 refreshExpiresAt |-> now + REFRESH_TOKEN_EXPIRY_MS,
                 sweepNow |-> 0]
       IN /\ proc' = [proc EXCEPT ![p] =
                        [op |-> "generateTokenPair", pc |-> "insertAccess",
                         a |-> a, after |-> FALSE, row |-> NoRow, date |-> 0, ret |-> NoRet]]
          /\ pairs' = (n :> [req |-> req,
                             accessExpiresAt |-> a.accessExpiresAt,
                             refreshExpiresAt |-> a.refreshExpiresAt,
                             returned |-> FALSE]) @@ pairs
  /\ UNCHANGED <<registry, now, store, issued, consumed, revoked>>

GenerateTokenPairCall(p, requests) ==
  GenerateTokenPairCallUpTo(p, requests, MaxPairs)

\* The refresh exchange of the token endpoint: validateRefreshToken has
\* returned valid=true to the caller, which calls generateTokenPair with the
\* clientId, scope and resource of that result.  The pair's history entry
\* remembers the refresh token it was exchanged for.
Exchanges == {n \in DOMAIN pairs : "from" \in DOMAIN pairs[n]}

GenerateTokenPairFromRefresh(p) ==
  /\ proc[p].op = "validateRefreshToken"
  /\ proc[p].pc = "done"
  /\ proc[p].ret.valid
  /\ Cardinality(Exchanges) < MaxExchanges
  /\ LET n == Cardinality(DOMAIN pairs) + 1
         req == [clientId |-> proc[p].ret.clientId, scope |-> proc[p].ret.scope,
                 resource |-> proc[p].ret.resource]
         a == [clientId |-> req.clientId, scope |-> req.scope,
               resource |-> req.resource,
               accessToken |-> AccessTokenOf(n),
               refreshToken |-> RefreshTokenOf(n),
               accessExpiresAt |-> now + TOKEN_EXPIRY_MS,
               refreshExpiresAt |-> now + REFRESH_TOKEN_EXPIRY_MS,
               sweepNow |-> 0]
     IN /\ proc' = [proc EXCEPT ![p] =
                      [op |-> "generateTokenPair", pc |-> "insertAccess",
                       a |-> a, after |-> FALSE, row |-> NoRow, date |-> 0, ret |-> NoRet]]
        /\ pairs' = (n :> [req |-> req,
                           accessExpiresAt |-> a.accessExpiresAt,
                           refreshExpiresAt |-> a.refreshExpiresAt,
                           returned |-> FALSE,
                           from |-> proc[p].a.token]) @@ pairs
  /\ UNCHANGED <<registry, now, store, issued, consumed, revoked>>

\* INSERT INTO mcp_access_tokens
GenerateTokenPairInsertAccess(p) ==
  /\ proc[p].op = "generateTokenPair"
  /\ proc[p].pc = "insertAccess"
  /\ access' = (proc[p].a.accessToken :> AccessRow(proc[p].a)) @@ access
  /\ proc' = [proc EXCEPT ![p].pc = "insertRefresh"]
  /\ UNCHANGED <<registry, now, codes, refresh, history>>

\* INSERT INTO mcp_refresh_tokens; on its reply cleanupExpiredTokens starts
\* and reads the clock.
GenerateTokenPairInsertRefresh(p) ==
  /\ proc[p].op = "generateTokenPair"
  /\ proc[p].pc = "insertRefresh"
  /\ refresh' = (proc[p].a.refreshToken :> RefreshRow(proc[p].a)) @@ refresh
  /\ proc' = [proc EXCEPT ![p].pc = "sweepAccess", ![p].a.sweepNow = now]
  /\ UNCHANGED <<registry, now, codes, access, history>>

\* Either INSERT rejects: the catch block rethrows.
GenerateTokenPairFails(p) ==
  /\ proc[p].op = "generateTokenPair"
  /\ proc[p].pc \in {"insertAccess", "insertRefresh"}
  /\ proc' = [proc EXCEPT ![p] = Done(p, Thrown)]
  /\ UNCHANGED <<registry, now, store, history>>

\* --------------------------------------------------- cleanupExpiredTokens
\* Mutants of Unexpired: the comparison inverted (expires_at > $1), the
\* comparison inclusive (expires_at <= $1), and a DELETE that removes only
\* the expired row that expired first.
UnexpiredInverted(table, date) ==
  [k \in {t \in DOMAIN table : ~(table[t].expires_at > date)} |-> table[k]]

UnexpiredInclusive(table, date) ==
  [k \in {t \in DOMAIN table : ~(table[t].expires_at <= date)} |-> table[k]]

UnexpiredOldestOnly(table, date) ==
  LET expired == {t \in DOMAIN table : table[t].expires_at < date}
      oldest == CHOOSE t \in expired :
                  \A u \in expired : table[t].expires_at <= table[u].expires_at
  IN IF expired = {} THEN table
     ELSE [k \in DOMAIN table \ {oldest} |-> table[k]]

\* DELETE FROM <table> WHERE expires_at < $1
Unexpired(table, date) ==
  [k \in {t \in DOMAIN table : ~(table[t].expires_at < date)} |-> table[k]]

PairResult(a) == [accessToken |-> a.accessToken, refreshToken |-> a.refreshToken]

MarkReturned(a) ==
  [n \in DOMAIN pairs |->
     IF AccessTokenOf(n) = a.accessToken
     THEN [pairs[n] EXCEPT !.returned = TRUE] ELSE pairs[n]]

CleanupAccess(p) ==
  /\ proc[p].op = "generateTokenPair"
  /\ proc[p].pc = "sweepAccess"
  /\ access' = Unexpired(access, proc[p].a.sweepNow)
  /\ proc' = [proc EXCEPT ![p].pc = "sweepRefresh"]
  /\ UNCHANGED <<registry, now, codes, refresh, history>>

CleanupRefresh(p) ==
  /\ proc[p].op = "generateTokenPair"
  /\ proc[p].pc = "sweepRefresh"
  /\ refresh' = Unexpired(refresh, proc[p].a.sweepNow)
  /\ proc' = [proc EXCEPT ![p].pc = "sweepCodes"]
  /\ UNCHANGED <<registry, now, codes, access, history>>

\* The last DELETE of the sweep, and generateTokenPair's return.
CleanupCodes(p) ==
  /\ proc[p].op = "generateTokenPair"
  /\ proc[p].pc = "sweepCodes"
  /\ codes' = Unexpired(codes, proc[p].a.sweepNow)
  /\ proc' = [proc EXCEPT ![p] = Done(p, PairResult(proc[p].a))]
  /\ pairs' = MarkReturned(proc[p].a)
  /\ UNCHANGED <<registry, now, access, refresh, issued, consumed, revoked>>

\* Mutant of CleanupFails: the catch block of the sweep rethrows.
CleanupFailsRethrows(p) ==
  /\ proc[p].op = "generateTokenPair"
  /\ proc[p].pc \in {"sweepAccess", "sweepRefresh", "sweepCodes"}
  /\ proc' = [proc EXCEPT ![p] = Done(p, Thrown)]
  /\ UNCHANGED <<registry, now, store, history>>

\* A DELETE of the sweep rejects: logged, not rethrown; the rest of the sweep
\* is skipped and generateTokenPair returns the pair.
CleanupFails(p) ==
  /\ proc[p].op = "generateTokenPair"
  /\ proc[p].pc \in {"sweepAccess", "sweepRefresh", "sweepCodes"}
  /\ proc' = [proc EXCEPT ![p] = Done(p, PairResult(proc[p].a))]
  /\ pairs' = MarkReturned(proc[p].a)
  /\ UNCHANGED <<registry, now, store, issued, consumed, revoked>>

\* The store after a run of cleanupExpiredTokens that read the clock as
\* `date` and whose first k DELETEs were answered; a run whose DELETEs are all
\* answered runs three.
CleanupExpiredTokensUpTo(k, s, date) ==
  <<IF k >= 3 THEN Unexpired(s[1], date) ELSE s[1],
    IF k >= 1 THEN Unexpired(s[2], date) ELSE s[2],
    IF k >= 2 THEN Unexpired(s[3], date) ELSE s[3]>>

CleanupExpiredTokens(s, date) == CleanupExpiredTokensUpTo(3, s, date)

\* Token values a caller can present: those some generateTokenPair returned,
\* and one that was never minted.
Returned == {n \in DOMAIN pairs : pairs[n].returned}
KnownAccessTokens == {AccessTokenOf(n) : n \in Returned \cup {0}}
KnownRefreshTokens == {RefreshTokenOf(n) : n \in Returned \cup {0}}

\* ----------------------------------------------------- validateAccessToken
ValidateAccessTokenCall(p) ==
  /\ Free(p)
  /\ \E token \in KnownAccessTokens :
       proc' = [proc EXCEPT ![p] =
                  [op |-> "validateAccessToken", pc |-> "select",
                   a |-> [token |-> token],
                   after |-> \E n \in Returned : /\ AccessTokenOf(n) = token
                                                  /\ RefreshTokenOf(n) \in revoked,
                   row |-> NoRow, date |-> 0, ret |-> NoRet]]
  /\ UNCHANGED <<registry, now, store, history>>

\* Mutant of ValidateAccessTokenSelect: a row is taken for expired from its
\* expiry instant on.
ValidateAccessTokenSelectExpiredAtExpiry(p) ==
  /\ proc[p].op = "validateAccessToken"
  /\ proc[p].pc = "select"
  /\ LET token == proc[p].a.token IN
       IF token \notin DOMAIN access
       THEN proc' = [proc EXCEPT ![p] = Done(p, FALSE)]
       ELSE IF now >= access[token].expires_at
       THEN proc' = [proc EXCEPT ![p].pc = "deleteExpired",
                                 ![p].row = access[token], ![p].date = now]
       ELSE proc' = [proc EXCEPT ![p] = [Done(p, TRUE) EXCEPT !.row = access[token],
                                                              !.date = now]]
  /\ UNCHANGED <<registry, now, store, history>>

\* SELECT expires_at FROM mcp_access_tokens WHERE token = $1
ValidateAccessTokenSelect(p) ==
  /\ proc[p].op = "validateAccessToken"
  /\ proc[p].pc = "select"
  /\ LET token == proc[p].a.token IN
       IF token \notin DOMAIN access
       THEN proc' = [proc EXCEPT ![p] = Done(p, FALSE)]
       ELSE IF now > access[token].expires_at
       THEN proc' = [proc EXCEPT ![p].pc = "deleteExpired",
                                 ![p].row = access[token], ![p].date = now]
       ELSE proc' = [proc EXCEPT ![p] = [Done(p, TRUE) EXCEPT !.row = access[token],
                                                              !.date = now]]
  /\ UNCHANGED <<registry, now, store, history>>

\* DELETE FROM mcp_access_tokens WHERE token = $1
ValidateAccessTokenDeleteExpired(p) ==
  /\ proc[p].op = "validateAccessToken"
  /\ proc[p].pc = "deleteExpired"
  /\ access' = Remove(access, proc[p].a.token)
  /\ proc' = [proc EXCEPT ![p] = Done(p, FALSE)]
  /\ UNCHANGED <<registry, now, codes, refresh, history>>

\* A query rejects: the catch block returns false.
ValidateAccessTokenFails(p) ==
  /\ proc[p].op = "validateAccessToken"
  /\ proc[p].pc \in {"select", "deleteExpired"}
  /\ proc' = [proc EXCEPT ![p] = Done(p, FALSE)]
  /\ UNCHANGED <<registry, now, store, history>>

\* ---------------------------------------------------- validateRefreshToken
RefreshResult(valid, error, clientId, scope, resource) ==
  [valid |-> valid, error |-> error, clientId |-> clientId, scope |-> scope,
   resource |-> resource]
RefreshError(error) == RefreshResult(FALSE, error, Undefined, Undefined, Undefined)

ValidateRefreshTokenCall(p) ==
  /\ Free(p)
  /\ \E token \in KnownRefreshTokens :
       proc' = [proc EXCEPT ![p] =
                  [op |-> "validateRefreshToken", pc |-> "select",
                   a |-> [token |-> token], after |-> token \in revoked,
                   row |-> NoRow, date |-> 0, ret |-> NoRet]]
  /\ UNCHANGED <<registry, now, store, history>>

\* Mutant of ValidateRefreshTokenSelect: a valid validation renews the
\* expiry of the row.
ValidateRefreshTokenSelectSliding(p) ==
  /\ proc[p].op = "validateRefreshToken"
  /\ proc[p].pc = "select"
  /\ LET token == proc[p].a.token IN
       IF token \notin DOMAIN refresh
       THEN /\ proc' = [proc EXCEPT ![p] = Done(p, RefreshError("Invalid refresh token"))]
            /\ refresh' = refresh
       ELSE LET tokenData == refresh[token] IN
            IF now > tokenData.expires_at
            THEN /\ proc' = [proc EXCEPT ![p].pc = "deleteExpired",
                                         ![p].row = tokenData, ![p].date = now]
                 /\ refresh' = refresh
            ELSE /\ proc' = [proc EXCEPT ![p] =
                               [Done(p, RefreshResult(TRUE, Undefined, tokenData.client_id,
                                                      tokenData.scope, tokenData.resource))
                                  EXCEPT !.row = tokenData, !.date = now]]
                 /\ refresh' = [refresh EXCEPT
                                  ![token].expires_at = now + REFRESH_TOKEN_EXPIRY_MS]
  /\ UNCHANGED <<registry, now, codes, access, history>>

\* SELECT * FROM mcp_refresh_tokens WHERE token = $1
ValidateRefreshTokenSelect(p) ==
  /\ proc[p].op = "validateRefreshToken"
  /\ proc[p].pc = "select"
  /\ LET token == proc[p].a.token IN
       IF token \notin DOMAIN refresh
       THEN proc' = [proc EXCEPT ![p] = Done(p, RefreshError("Invalid refresh token"))]
       ELSE LET tokenData == refresh[token] IN
            IF now > tokenData.expires_at
            THEN proc' = [proc EXCEPT ![p].pc = "deleteExpired",
                                      ![p].row = tokenData, ![p].date = now]
            ELSE proc' = [proc EXCEPT ![p] =
                            [Done(p, RefreshResult(TRUE, Undefined, tokenData.client_id,
                                                   tokenData.scope, tokenData.resource))
                               EXCEPT !.row = tokenData, !.date = now]]
  /\ UNCHANGED <<registry, now, store, history>>

\* Mutant of ValidateRefreshTokenDeleteExpired: the DELETE is left out.
ValidateRefreshTokenExpiredKeepsRow(p) ==
  /\ proc[p].op = "validateRefreshToken"
  /\ proc[p].pc = "deleteExpired"
  /\ proc' = [proc EXCEPT ![p] = Done(p, RefreshError("Refresh token expired"))]
  /\ UNCHANGED <<registry, now, store, history>>

\* DELETE FROM mcp_refresh_tokens WHERE token = $1
ValidateRefreshTokenDeleteExpired(p) ==
  /\ proc[p].op = "validateRefreshToken"
  /\ proc[p].pc = "deleteExpired"
  /\ refresh' = Remove(refresh, proc[p].a.token)
  /\ proc' = [proc EXCEPT ![p] = Done(p, RefreshError("Refresh token expired"))]
  /\ UNCHANGED <<registry, now, codes, access, history>>

\* A query rejects: the catch block returns a 'Database error' result.
ValidateRefreshTokenFails(p) ==
  /\ proc[p].op = "validateRefreshToken"
  /\ proc[p].pc \in {"select", "deleteExpired"}
  /\ proc' = [proc EXCEPT ![p] = Done(p, RefreshError("Database error"))]
  /\ UNCHANGED <<registry, now, store, history>>

\* ------------------------------------------------------ revokeRefreshToken
Void == [void |-> TRUE]

RevokeRefreshTokenCall(p) ==
  /\ Free(p)
  /\ \E token \in KnownRefreshTokens :
       proc' = [proc EXCEPT ![p] =
                  [op |-> "revokeRefreshToken", pc |-> "select",
                   a |-> [token |-> token], after |-> token \in revoked,
                   row |-> NoRow, date |-> 0, ret |-> NoRet]]
  /\ UNCHANGED <<registry, now, store, history>>

\* Mutant of RevokeRefreshTokenSelect: the linked access token is not
\* revoked.
RevokeRefreshTokenSelectSkipsAccess(p) ==
  /\ proc[p].op = "revokeRefreshToken"
  /\ proc[p].pc = "select"
  /\ proc' = [proc EXCEPT ![p].pc = "deleteRefresh"]
  /\ UNCHANGED <<registry, now, store, history>>

\* SELECT access_token FROM mcp_refresh_tokens WHERE token = $1
RevokeRefreshTokenSelect(p) ==
  /\ proc[p].op = "revokeRefreshToken"
  /\ proc[p].pc = "select"
  /\ LET token == proc[p].a.token IN
       IF token \in DOMAIN refresh /\ ~Falsy(refresh[token].access_token)
       THEN proc' = [proc EXCEPT ![p].pc = "deleteAccess", ![p].row = refresh[token]]
       ELSE proc' = [proc EXCEPT ![p].pc = "deleteRefresh"]
  /\ UNCHANGED <<registry, now, store, history>>

\* Mutant of RevokeRefreshTokenDeleteAccess: a linked access token whose row
\* is gone is an error.
RevokeRefreshTokenDeleteAccessStrict(p) ==
  /\ proc[p].op = "revokeRefreshToken"
  /\ proc[p].pc = "deleteAccess"
  /\ access' = [k \in DOMAIN access \ {proc[p].row.access_token} |-> access[k]]
  /\ proc' = IF proc[p].row.access_token \in DOMAIN access
             THEN [proc EXCEPT ![p].pc = "deleteRefresh"]
             ELSE [proc EXCEPT ![p] = Done(p, Thrown)]
  /\ UNCHANGED <<registry, now, codes, refresh, history>>

\* DELETE FROM mcp_access_tokens WHERE token = <the linked access token>
RevokeRefreshTokenDeleteAccess(p) ==
  /\ proc[p].op = "revokeRefreshToken"
  /\ proc[p].pc = "deleteAccess"
  /\ access' = Remove(access, proc[p].row.access_token)
  /\ proc' = [proc EXCEPT ![p].pc = "deleteRefresh"]
  /\ UNCHANGED <<registry, now, codes, refresh, history>>

\* DELETE FROM mcp_refresh_tokens WHERE token = $1, and the return
RevokeRefreshTokenDeleteRefresh(p) ==
  /\ proc[p].op = "revokeRefreshToken"
  /\ proc[p].pc = "deleteRefresh"
  /\ refresh' = Remove(refresh, proc[p].a.token)
  /\ proc' = [proc EXCEPT ![p] = Done(p, Void)]
  /\ revoked' = revoked \cup {proc[p].a.token}
  /\ UNCHANGED <<registry, now, codes, access, issued, consumed, pairs>>

\* A query rejects: the catch block rethrows.
RevokeRefreshTokenFails(p) ==
  /\ proc[p].op = "revokeRefreshToken"
  /\ proc[p].pc \in {"select", "deleteAccess", "deleteRefresh"}
  /\ proc' = [proc EXCEPT ![p] = Done(p, Thrown)]
  /\ UNCHANGED <<registry, now, store, history>>

\* --------------------------------------------------------- client registry
\* `client_${crypto.randomBytes(16).toString('hex')}` and
\* crypto.randomBytes(32).toString('hex'): any value of the form, a value
\* drawn before included.
ClientIdDraws == {"client_1", "client_2"}
ClientSecretDraws == {"secret_1", "secret_2"}

\* The bodies of registration requests: a record of the fields the body
\* carries.  No body, every field, and fields that are empty.
RegistrationRequests ==
  { <<>>,
    [client_name |-> "My App", redirect_uris |-> <<"https://a/cb">>,
     grant_types |-> <<"authorization_code", "refresh_token">>,
     response_types |-> <<"code", "token">>,
     token_endpoint_auth_method |-> "none", scope |-> "read"],
    [client_name |-> "", redirect_uris |-> <<>>,
     token_endpoint_auth_method |-> ""] }

\* request.f || d, for a field that holds a string
StringOr(request, f, d) ==
  IF f \in DOMAIN request /\ ~Falsy(request[f]) THEN request[f] ELSE d

\* request.f || d, for a field that holds an array: every array is truthy
ArrayOr(request, f, d) == IF f \in DOMAIN request THEN request[f] ELSE d

\* Mutant of ClientRow: the default grant types are those of the default
\* client.
ClientRowDefaultGrants(request, clientSecret, createdAt) ==
  [client_secret |-> clientSecret,
   client_name |-> StringOr(request, "client_name", "Dynamic Client"),
   redirect_uris |-> ArrayOr(request, "redirect_uris",
                             <<"https://chatgpt.com/aip/g-*/oauth/callback">>),
   grant_types |-> ArrayOr(request, "grant_types",
                           <<"authorization_code", "client_credentials", "refresh_token">>),
   response_types |-> ArrayOr(request, "response_types", <<"code">>),
   token_endpoint_auth_method |->
     StringOr(request, "token_endpoint_auth_method", "client_secret_post"),
   created_at |-> createdAt]

\* The row registerClient inserts; created_at is the column's default, the
\* time of the INSERT.
ClientRow(request, clientSecret, createdAt) ==
  [client_secret |-> clientSecret,
   client_name |-> StringOr(request, "client_name", "Dynamic Client"),
   redirect_uris |-> ArrayOr(request, "redirect_uris",
                             <<"https://chatgpt.com/aip/g-*/oauth/callback">>),
   grant_types |-> ArrayOr(request, "grant_types", <<"authorization_code">>),
   response_types |-> ArrayOr(request, "response_types", <<"code">>),
   token_endpoint_auth_method |->
     StringOr(request, "token_endpoint_auth_method", "client_secret_post"),
   created_at |-> createdAt]

\* What registerClient returns for the row it inserted.
ClientRegistrationResponse(clientId, row) ==
  [client_id |-> clientId,
   client_secret |-> row.client_secret,
   client_name |-> row.client_name,
   redirect_uris |-> row.redirect_uris,
   grant_types |-> row.grant_types,
   response_types |-> row.response_types,
   token_endpoint_auth_method |-> row.token_endpoint_auth_method,
   client_id_issued_at |-> row.created_at,
   client_secret_expires_at |-> 0]

\* Mutant of UniqueViolation: the table has no unique index on client_id.
UniqueViolationNever(table, clientId) == FALSE

\* The INSERT of registerClient has no ON CONFLICT clause: the unique index
\* on client_id, the one ON CONFLICT (client_id) names, rejects a second row.
UniqueViolation(table, clientId) == clientId \in DOMAIN table

Call(op, a, ret) ==
  [op |-> op, pc |-> "done", a |-> a, after |-> FALSE, row |-> NoRow,
   date |-> 0, ret |-> ret]

\* One INSERT ... RETURNING created_at; a unique violation rejects it and the
\* catch block rethrows.  The id and the secret are drawn from `ids` and
\* `secrets`.
RegisterClientDrawing(p, requests, ids, secrets) ==
  /\ Free(p)
  /\ \E request \in requests, clientId \in ids, clientSecret \in secrets :
       IF UniqueViolation(clients, clientId)
       THEN /\ proc' = [proc EXCEPT ![p] = Call("registerClient", request, Thrown)]
            /\ UNCHANGED <<clients, registered>>
       ELSE LET row == ClientRow(request, clientSecret, now)
                response == ClientRegistrationResponse(clientId, row)
            IN /\ clients' = (clientId :> row) @@ clients
               /\ registered' =
                    (clientId :> [response |-> response, upserted |-> FALSE])
                      @@ registered
               /\ proc' = [proc EXCEPT ![p] = Call("registerClient", request, response)]
  /\ UNCHANGED <<env, now, store, history>>

RegisterClient(p, requests) ==
  RegisterClientDrawing(p, requests, ClientIdDraws, ClientSecretDraws)

\* The INSERT rejects: the catch block rethrows.
RegisterClientFails(p, requests) ==
  /\ Free(p)
  /\ \E request \in requests :
       proc' = [proc EXCEPT ![p] = Call("registerClient", request, Thrown)]
  /\ UNCHANGED <<registry, now, store, history>>

\* The row of the default client, but for created_at.
DefaultClient(credentials) ==
  [client_secret |-> credentials.clientSecret,
   client_name |-> "Default MCP Client",
   redirect_uris |-> <<"https://chatgpt.com/aip/g-*/oauth/callback",
                       "https://chatgpt.com/connector_platform_oauth_redirect",
                       "https://platform.openai.com/apps-manage/oauth">>,
   grant_types |-> <<"authorization_code", "client_credentials", "refresh_token">>,
   response_types |-> <<"code">>,
   token_endpoint_auth_method |-> "client_secret_post"]

WithCreatedAt(fields, createdAt) ==
  [f \in DOMAIN fields \cup {"created_at"} |->
     IF f = "created_at" THEN createdAt ELSE fields[f]]

\* Mutant of Upsert: ON CONFLICT (client_id) DO NOTHING.
UpsertDoNothing(table, credentials, date) ==
  IF credentials.clientId \in DOMAIN table THEN table
  ELSE (credentials.clientId :> WithCreatedAt(DefaultClient(credentials), date))
         @@ table

\* Mutant of Upsert: the table is emptied before the INSERT.
UpsertAlone(table, credentials, date) ==
  (credentials.clientId :> WithCreatedAt(DefaultClient(credentials), date))

\* INSERT ... ON CONFLICT (client_id) DO UPDATE SET every column but
\* created_at.
Upsert(table, credentials, date) ==
  LET id == credentials.clientId IN
    IF id \in DOMAIN table
    THEN [table EXCEPT ![id] = WithCreatedAt(DefaultClient(credentials),
                                             table[id].created_at)]
    ELSE (id :> WithCreatedAt(DefaultClient(credentials), date)) @@ table

\* History: the table holds the row a call of initializeDefaultClient with
\* these credentials leaves.
Seeded(table, credentials) ==
  /\ credentials.clientId \in DOMAIN table
  /\ table[credentials.clientId] =
       WithCreatedAt(DefaultClient(credentials), table[credentials.clientId].created_at)

initializeDefaultClient(p) ==
  /\ Free(p)
  /\ LET credentials == getOAuthCredentials(env) IN
       /\ clients' = Upsert(clients, credentials, now)
       /\ registered' =
            [id \in DOMAIN registered |->
               IF id = credentials.clientId
               THEN [registered[id] EXCEPT !.upserted = TRUE] ELSE registered[id]]
       /\ proc' = [proc EXCEPT ![p] =
                     [Call("initializeDefaultClient", credentials, Void)
                        EXCEPT !.after = Seeded(clients, credentials)]]
  /\ UNCHANGED <<env, now, store, history>>

\* The INSERT rejects: the catch block rethrows.
initializeDefaultClientFails(p) ==
  /\ Free(p)
  /\ proc' = [proc EXCEPT ![p] =
                Call("initializeDefaultClient", getOAuthCredentials(env), Thrown)]
  /\ UNCHANGED <<registry, now, store, history>>

\* The client ids and secrets a caller presents: registered ones, those of
\* the environments, and ones nobody holds.
PresentedClientIds ==
  ClientIdDraws \cup {getOAuthCredentials(e).clientId : e \in Environments}
    \cup {"clientA"}
PresentedClientSecrets ==
  ClientSecretDraws \cup {getOAuthCredentials(e).clientSecret : e \in Environments}

\* What getClient returns when the table has no row of the id.
NoClient == [undefined |-> TRUE]

\* A boolean a function returned.
Boolean(b) == [value |-> b]

\* SELECT * FROM mcp_oauth_clients WHERE client_id = $1, and the record made
\* of the row; undefined when there is none.
getClient(table, clientId) ==
  IF clientId \notin DOMAIN table THEN NoClient
  ELSE [client_id |-> clientId,
        client_secret |-> table[clientId].client_secret,
        client_name |-> table[clientId].client_name,
        redirect_uris |-> table[clientId].redirect_uris,
        grant_types |-> table[clientId].grant_types,
        response_types |-> table[clientId].response_types,
        token_endpoint_auth_method |-> table[clientId].token_endpoint_auth_method,
        created_at |-> table[clientId].created_at]

GetClient(p) ==
  /\ Free(p)
  /\ \E clientId \in PresentedClientIds :
       proc' = [proc EXCEPT ![p] =
                  Call("getClient", [clientId |-> clientId], getClient(clients, clientId))]
  /\ UNCHANGED <<registry, now, store, history>>

\* The SELECT rejects: the catch block of getClient rethrows, and so do its
\* callers, which catch nothing.
GetClientFails(p) ==
  /\ Free(p)
  /\ \E op \in {"getClient", "validateClientCredentials", "validateClientId"},
        clientId \in PresentedClientIds :
       proc' = [proc EXCEPT ![p] = Call(op, [clientId |-> clientId], Thrown)]
  /\ UNCHANGED <<registry, now, store, history>>

\* if (client) return client.client_secret === clientSecret; the fallback pair
\* is compared only when there is no row.
validateClientCredentials(table, e, clientId, clientSecret) ==
  IF clientId \in DOMAIN table
  THEN table[clientId].client_secret = clientSecret
  ELSE /\ clientId = getOAuthCredentials(e).clientId
       /\ clientSecret = getOAuthCredentials(e).clientSecret

ValidateClientCredentials(p) ==
  /\ Free(p)
  /\ \E clientId \in PresentedClientIds, clientSecret \in PresentedClientSecrets :
       proc' = [proc EXCEPT ![p] =
                  Call("validateClientCredentials",
                       [clientId |-> clientId, clientSecret |-> clientSecret],
                       Boolean(validateClientCredentials(clients, env, clientId,
                                                         clientSecret)))]
  /\ UNCHANGED <<registry, now, store, history>>

\* Mutant of validateClientId: the fallback id is not looked at.
validateClientIdRegisteredOnly(table, e, clientId) == clientId \in DOMAIN table

validateClientId(table, e, clientId) ==
  IF clientId \in DOMAIN table THEN TRUE
  ELSE clientId = getOAuthCredentials(e).clientId

ValidateClientId(p) ==
  /\ Free(p)
  /\ \E clientId \in PresentedClientIds :
       proc' = [proc EXCEPT ![p] =
                  Call("validateClientId", [clientId |-> clientId],
                       Boolean(validateClientId(clients, env, clientId)))]
  /\ UNCHANGED <<registry, now, store, history>>

\* The server process is stopped and started again with another environment;
\* the table stays.
Restart ==
  /\ \A p \in Procs : Free(p)
  /\ \E e \in Environments \ {env} : env' = e
  /\ proc' = [p \in Procs |-> Idle]
  /\ UNCHANGED <<clients, registered, now, store, history>>

\* The requests of process p to the client registry.
ClientStep(p, requests) ==
  \/ initializeDefaultClient(p)
  \/ initializeDefaultClientFails(p)
  \/ RegisterClient(p, requests)
  \/ RegisterClientFails(p, requests)
  \/ GetClient(p)
  \/ GetClientFails(p)
  \/ ValidateClientCredentials(p)
  \/ ValidateClientId(p)

\* ------------------------------------------------------------------- next
\* The authorization-code requests of process p: codes are asked for by
\* `requests` and redeemed by `who`.
CodeStep(p, requests, who) ==
  \/ GenerateAuthorizationCode(p, requests)
  \/ GenerateAuthorizationCodeFails(p, requests)
  \/ ValidateAuthorizationCodeCall(p, who)
  \/ ValidateAuthorizationCodeSelect(p)
  \/ ValidateAuthorizationCodeDeleteExpired(p)
  \/ ValidateAuthorizationCodeConsume(p)
  \/ ValidateAuthorizationCodeFails(p)

\* --------------------------------------------------------- getTokenResponse
\* Mutant of getTokenResponse: the scope field is always set.
getTokenResponseAlwaysScoped(accessToken, refreshToken, scope) ==
  [access_token |-> accessToken, token_type |-> "Bearer",
   expires_in |-> TOKEN_EXPIRY_MS, refresh_token |-> refreshToken,
   scope |-> scope]

\* The body of a token response.  Math.floor(TOKEN_EXPIRY_MS / 1000) is the
\* lifetime in seconds, the unit of this model's TOKEN_EXPIRY_MS; `if (scope)`
\* skips undefined and the empty string.
getTokenResponse(accessToken, refreshToken, scope) ==
  IF ~Falsy(scope)
  THEN [access_token |-> accessToken, token_type |-> "Bearer",
        expires_in |-> TOKEN_EXPIRY_MS, refresh_token |-> refreshToken,
        scope |-> scope]
  ELSE [access_token |-> accessToken, token_type |-> "Bearer",
        expires_in |-> TOKEN_EXPIRY_MS, refresh_token |-> refreshToken]

\* The scope argument of getTokenResponse: omitted, empty, one or two scopes.
ResponseScopes == {Undefined, "", "read", "read write"}

\* A synchronous call of getTokenResponse with tokens a caller can hold.
GetTokenResponse(p) ==
  /\ Free(p)
  /\ \E accessToken \in KnownAccessTokens, refreshToken \in KnownRefreshTokens,
        scope \in ResponseScopes :
       proc' = [proc EXCEPT ![p] =
                  Call("getTokenResponse",
                       [accessToken |-> accessToken, refreshToken |-> refreshToken,
                        scope |-> scope],
                       getTokenResponse(accessToken, refreshToken, scope))]
  /\ UNCHANGED <<registry, now, store, history>>

\* The token requests of process p: pairs are minted for `requests`.
TokenStep(p, requests) ==
  \/ GenerateTokenPairCall(p, requests)
  \/ GenerateTokenPairInsertAccess(p)
  \/ GenerateTokenPairInsertRefresh(p)
  \/ GenerateTokenPairFails(p)
  \/ CleanupAccess(p)
  \/ CleanupRefresh(p)
  \/ CleanupCodes(p)
  \/ CleanupFails(p)
  \/ ValidateAccessTokenCall(p)
  \/ ValidateAccessTokenSelect(p)
  \/ ValidateAccessTokenDeleteExpired(p)
  \/ ValidateAccessTokenFails(p)
  \/ ValidateRefreshTokenCall(p)
  \/ ValidateRefreshTokenSelect(p)
  \/ ValidateRefreshTokenDeleteExpired(p)
  \/ ValidateRefreshTokenFails(p)
  \/ RevokeRefreshTokenCall(p)
  \/ RevokeRefreshTokenSelect(p)
  \/ RevokeRefreshTokenDeleteAccess(p)
  \/ RevokeRefreshTokenDeleteRefresh(p)
  \/ RevokeRefreshTokenFails(p)

\* Every request, from every process, concurrently; the clients redeem
\* their own codes.
Next ==
  \/ Tick
  \/ \E p \in Procs : \/ CodeStep(p, {PkceRequest}, "owner")
                       \/ TokenStep(p, {ScopedMint})

Spec == Init /\ [][Next]_vars

\* The authorization-code issuer alone, one request at a time: any request,
\* any presentation.
NextCode == Tick \/ CodeStep(1, AuthRequests, "anyone")

SpecCode == Init /\ [][NextCode]_vars

\* Concurrent redemptions by the clients the codes were issued to.
NextRace == Tick \/ \E p \in Procs : CodeStep(p, AuthRequests, "owner")

SpecRace == Init /\ [][NextRace]_vars

\* Redemption attempts on one client's codes: a request that presents
\* anything beside the owner of the code, who presents it correctly.
NextAttempts ==
  \/ Tick
  \/ CodeStep(1, {PkceRequest}, "anyone")
  \/ ValidateAuthorizationCodeCall(2, "owner")
  \/ ValidateAuthorizationCodeSelect(2)
  \/ ValidateAuthorizationCodeDeleteExpired(2)
  \/ ValidateAuthorizationCodeConsume(2)
  \/ ValidateAuthorizationCodeFails(2)

SpecAttempts == Init /\ [][NextAttempts]_vars

\* The code issuer alone, one request at a time: codes issued with a
\* challenge and any method, any presentation.
NextPkce == Tick \/ CodeStep(1, ChallengeRequests, "anyone")

SpecPkce == Init /\ [][NextPkce]_vars

\* The token issuer alone, one request at a time.
NextToken == Tick \/ TokenStep(1, MintRequests)

SpecToken == Init /\ [][NextToken]_vars

\* Token responses built beside the token issuer, one request at a time.
NextResponse == Tick \/ TokenStep(1, {ScopedMint}) \/ GetTokenResponse(1)

SpecResponse == Init /\ [][NextResponse]_vars

\* The client registry alone, one request at a time.
NextClient == Restart \/ ClientStep(1, RegistrationRequests)

SpecClient == Init /\ [][NextClient]_vars

\* Codes and tokens together, one request at a time.
NextSeq ==
  \/ Tick
  \/ CodeStep(1, {PkceRequest}, "owner")
  \/ TokenStep(1, {ScopedMint})

SpecSeq == Init /\ [][NextSeq]_vars

\* One request at a time, to one issuer: the behaviours of SpecCode together
\* with those of SpecToken.
NextEither ==
  \/ Tick
  \/ pairs = <<>> /\ GenerateAuthorizationCode(1, AuthRequests)
  \/ pairs = <<>> /\ GenerateAuthorizationCodeFails(1, AuthRequests)
  \/ pairs = <<>> /\ ValidateAuthorizationCodeCall(1, "anyone")
  \/ ValidateAuthorizationCodeSelect(1)
  \/ ValidateAuthorizationCodeDeleteExpired(1)
  \/ ValidateAuthorizationCodeConsume(1)
  \/ ValidateAuthorizationCodeFails(1)
  \/ issued = <<>> /\ TokenStep(1, MintRequests)

SpecEither == Init /\ [][NextEither]_vars

\* The token issuer with refresh exchanges, one request at a time.
NextExchange ==
  \/ Tick
  \/ TokenStep(1, {ScopedMint})
  \/ GenerateTokenPairFromRefresh(1)

SpecExchange == Init /\ [][NextExchange]_vars

\* Mint, validate and refresh, one request at a time; no token is revoked.
NextRefresh ==
  \/ Tick
  \/ GenerateTokenPairCall(1, {ScopedMint})
  \/ GenerateTokenPairFromRefresh(1)
  \/ GenerateTokenPairInsertAccess(1)
  \/ GenerateTokenPairInsertRefresh(1)
  \/ GenerateTokenPairFails(1)
  \/ CleanupAccess(1)
  \/ CleanupRefresh(1)
  \/ CleanupCodes(1)
  \/ CleanupFails(1)
  \/ ValidateAccessTokenCall(1)
  \/ ValidateAccessTokenSelect(1)
  \/ ValidateAccessTokenDeleteExpired(1)
  \/ ValidateAccessTokenFails(1)
  \/ ValidateRefreshTokenCall(1)
  \/ ValidateRefreshTokenSelect(1)
  \/ ValidateRefreshTokenDeleteExpired(1)
  \/ ValidateRefreshTokenFails(1)

SpecRefresh == Init /\ [][NextRefresh]_vars

\* Fewer than MaxIssued codes and pairs have been issued.
FewIssued == Cardinality(DOMAIN issued) + Cardinality(DOMAIN pairs) < MaxIssued

\* The sweep among codes and pairs, one request at a time.
NextSweep ==
  \/ Tick
  \/ FewIssued /\ GenerateAuthorizationCodeUpTo(1, {PkceRequest}, MaxIssued)
  \/ GenerateAuthorizationCodeFails(1, {PkceRequest})
  \/ ValidateAuthorizationCodeCall(1, "owner")
  \/ ValidateAuthorizationCodeSelect(1)
  \/ ValidateAuthorizationCodeDeleteExpired(1)
  \/ ValidateAuthorizationCodeConsume(1)
  \/ ValidateAuthorizationCodeFails(1)
  \/ FewIssued /\ GenerateTokenPairCallUpTo(1, {ScopedMint}, MaxIssued)
  \/ GenerateTokenPairInsertAccess(1)
  \/ GenerateTokenPairInsertRefresh(1)
  \/ GenerateTokenPairFails(1)
  \/ CleanupAccess(1)
  \/ CleanupRefresh(1)
  \/ CleanupCodes(1)
  \/ CleanupFails(1)

SpecSweep == Init /\ [][NextSweep]_vars

\* The query a request of process p in flight waits for is answered or
\* rejected.
Answered(p) ==
  \/ ValidateAuthorizationCodeSelect(p)
  \/ ValidateAuthorizationCodeDeleteExpired(p)
  \/ ValidateAuthorizationCodeConsume(p)
  \/ ValidateAuthorizationCodeFails(p)
  \/ GenerateTokenPairInsertAccess(p)
  \/ GenerateTokenPairInsertRefresh(p)
  \/ GenerateTokenPairFails(p)
  \/ CleanupAccess(p)
  \/ CleanupRefresh(p)
  \/ CleanupCodes(p)
  \/ CleanupFails(p)

\* SpecSweep with what the runtime guarantees: the clock goes on and every
\* awaited query settles.  Requests arrive or not; nothing else runs, as no
\* timer of the module calls cleanupExpiredTokens.
SpecSweepFair == SpecSweep /\ WF_vars(Tick) /\ WF_vars(Answered(1))

\* The sweep under concurrency: process 1 mints, and so sweeps, while
\* process 2 issues, redeems, mints, validates and revokes.
NextSweepRace ==
  \/ Tick
  \/ \E p \in Procs :
       \/ FewIssued /\ GenerateTokenPairCallUpTo(p, {ScopedMint}, MaxIssued)
       \/ GenerateTokenPairInsertAccess(p)
       \/ GenerateTokenPairInsertRefresh(p)
       \/ GenerateTokenPairFails(p)
       \/ CleanupAccess(p)
       \/ CleanupRefresh(p)
       \/ CleanupCodes(p)
       \/ CleanupFails(p)
  \/ FewIssued /\ GenerateAuthorizationCodeUpTo(2, {PkceRequest}, MaxIssued)
  \/ GenerateAuthorizationCodeFails(2, {PkceRequest})
  \/ ValidateAuthorizationCodeCall(2, "owner")
  \/ ValidateAuthorizationCodeSelect(2)
  \/ ValidateAuthorizationCodeDeleteExpired(2)
  \/ ValidateAuthorizationCodeConsume(2)
  \/ ValidateAuthorizationCodeFails(2)
  \/ ValidateAccessTokenCall(2)
  \/ ValidateAccessTokenSelect(2)
  \/ ValidateAccessTokenDeleteExpired(2)
  \/ ValidateAccessTokenFails(2)
  \/ ValidateRefreshTokenCall(2)
  \/ ValidateRefreshTokenSelect(2)
  \/ ValidateRefreshTokenDeleteExpired(2)
  \/ ValidateRefreshTokenFails(2)
  \/ RevokeRefreshTokenCall(2)
  \/ RevokeRefreshTokenSelect(2)
  \/ RevokeRefreshTokenDeleteAccess(2)
  \/ RevokeRefreshTokenDeleteRefresh(2)
  \/ RevokeRefreshTokenFails(2)

SpecSweepRace == Init /\ [][NextSweepRace]_vars

\* Concurrent requests to one issuer: the behaviours in which two processes
\* ask for codes and redeem their own, together with those in which two
\* processes mint, sweep, validate and revoke.
NextRaces ==
  \/ Tick
  \/ \E p \in Procs :
       \/ pairs = <<>> /\ CodeStep(p, AuthRequests, "owner")
       \/ issued = <<>> /\ TokenStep(p, {ScopedMint})

SpecRaces == Init /\ [][NextRaces]_vars

\* The authorization request of the default client of an unset environment.
DefaultClientRequest == [PkceRequest EXCEPT !.clientId = "chatgpt-mcp-client"]

\* The code issuer beside the registry, one request at a time: codes are
\* asked for in the name of a client nobody registered and in the name of
\* the default client, before and after the default client is seeded.
NextIssuer ==
  \/ Tick
  \/ initializeDefaultClient(1)
  \/ CodeStep(1, {PkceRequest, DefaultClientRequest}, "owner")

SpecIssuer == Init /\ [][NextIssuer]_vars

\* The registry among codes and pairs, one request at a time: clients are
\* registered and the default client is seeded, in one environment, while
\* codes are issued and redeemed and pairs are minted, swept, validated and
\* revoked.
NextServer ==
  \/ Tick
  \/ initializeDefaultClient(1)
  \/ RegisterClientDrawing(1, {<<>>}, {"client_1"}, {"secret_1"})
  \/ GenerateAuthorizationCode(1, {PkceRequest})
  \/ ValidateAuthorizationCodeCall(1, "owner")
  \/ ValidateAuthorizationCodeSelect(1)
  \/ ValidateAuthorizationCodeDeleteExpired(1)
  \/ ValidateAuthorizationCodeConsume(1)
  \/ GenerateTokenPairCall(1, {ScopedMint})
  \/ GenerateTokenPairInsertAccess(1)
  \/ GenerateTokenPairInsertRefresh(1)
  \/ CleanupAccess(1)
  \/ CleanupRefresh(1)
  \/ CleanupCodes(1)
  \/ ValidateAccessTokenCall(1)
  \/ ValidateAccessTokenSelect(1)
  \/ ValidateAccessTokenDeleteExpired(1)
  \/ ValidateRefreshTokenCall(1)
  \/ ValidateRefreshTokenSelect(1)
  \/ ValidateRefreshTokenDeleteExpired(1)
  \/ RevokeRefreshTokenCall(1)
  \/ RevokeRefreshTokenSelect(1)
  \/ RevokeRefreshTokenDeleteAccess(1)
  \/ RevokeRefreshTokenDeleteRefresh(1)

SpecServer == Init /\ [][NextServer]_vars

\* ================================================================= claims
\* validateAuthorizationCode of process p has returned (it did not throw).
Redeemed(p) ==
  /\ proc[p].op = "validateAuthorizationCode"
  /\ proc[p].pc = "done"
  /\ proc[p].ret # Thrown

RedeemedValid(p) == Redeemed(p) /\ proc[p].ret.valid

\* What generateAuthorizationCode was given for the code p presents.
IssuedFor(p) == issued[proc[p].a.code]

Supplied(x) == x \notin {Undefined, ""}

\* The stored row enforces PKCE: a challenge was sent, with method S256.
PkceRequired(req) == Supplied(req.codeChallenge) /\ req.codeChallengeMethod = "S256"

VerifierMatches(p) ==
  /\ Supplied(proc[p].a.codeVerifier)
  /\ Sha256Base64Url(proc[p].a.codeVerifier) = IssuedFor(p).req.codeChallenge

\* p presents the client id, the redirect URI and (where PKCE is enforced)
\* the verifier of the code's own authorization request.
PresentsCorrectly(p) ==
  /\ proc[p].a.code \in DOMAIN issued
  /\ proc[p].a.clientId = IssuedFor(p).req.clientId
  /\ proc[p].a.redirectUri = IssuedFor(p).req.redirectUri
  /\ PkceRequired(IssuedFor(p).req) => VerifierMatches(p)

\* p's SELECT found the row.
FoundRow(p) == proc[p].row # NoRow

\* C1: of the concurrent validateAuthorizationCode calls that present one
\* code correctly, at most one returns valid=true.
C1_AtMostOneRedemption ==
  \A p, q \in Procs :
    (p # q /\ RedeemedValid(p) /\ RedeemedValid(q)) => proc[p].a.code # proc[q].a.code

\* C2: redeemed one call after the other with the correct client, redirect
\* URI and verifier, an unexpired code is valid the first time, and every
\* redemption that begins after a valid one returns 'Invalid authorization
\* code'.
C2_FirstValidThenInvalid ==
  \A p \in Procs :
    Redeemed(p) =>
      /\ proc[p].after => proc[p].ret = CodeError("Invalid authorization code")
      /\ (~proc[p].after /\ PresentsCorrectly(p) /\ now <= IssuedFor(p).expiresAt)
           => proc[p].ret.valid

C2_SecondRedemptionSeen ==
  \E p \in Procs :
    /\ Redeemed(p) /\ proc[p].after /\ PresentsCorrectly(p)
    /\ now <= IssuedFor(p).expiresAt
    /\ proc[p].ret = CodeError("Invalid authorization code")

\* C3: the SELECT of a redemption answers a consumed code as it answers a
\* code that was never issued: the call returns 'Invalid authorization code'
\* and the store is left as it was.
C3_ConsumedLikeNeverIssued ==
  [][\A p \in Procs :
       ( /\ proc[p].op = "validateAuthorizationCode"
         /\ proc[p].pc = "select"
         /\ proc'[p] # proc[p]
         /\ (proc[p].a.code = NeverIssued \/ proc[p].a.code \in consumed) )
       => /\ store' = store
          /\ history' = history
          /\ proc'[p].pc = "done"
          /\ proc'[p].ret \in {CodeError("Invalid authorization code"), Thrown}]_vars

C3_ConsumedCodePresented ==
  \E p \in Procs :
    /\ Redeemed(p)
    /\ proc[p].a.code \in consumed
    /\ proc[p].a.code \notin DOMAIN codes
    /\ proc[p].after
    /\ ~FoundRow(p)
    /\ proc[p].ret = CodeError("Invalid authorization code")

C5_Pkce ==
  \A p \in Procs :
    (Redeemed(p) /\ proc[p].a.code \in DOMAIN issued /\ PkceRequired(IssuedFor(p).req)) =>
      /\ proc[p].ret.valid => VerifierMatches(p)
      /\ ( /\ FoundRow(p)
           /\ proc[p].date <= IssuedFor(p).expiresAt
           /\ proc[p].a.clientId = IssuedFor(p).req.clientId
           /\ proc[p].a.redirectUri = IssuedFor(p).req.redirectUri )
         => IF VerifierMatches(p) THEN proc[p].ret.valid
            ELSE IF Supplied(proc[p].a.codeVerifier)
                 THEN proc[p].ret = CodeError("Invalid code verifier")
                 ELSE proc[p].ret = CodeError("Code verifier required")

C5_WrongVerifierRefused ==
  \E p \in Procs :
    /\ Redeemed(p) /\ proc[p].a.code \in DOMAIN issued
    /\ PkceRequired(IssuedFor(p).req)
    /\ Supplied(proc[p].a.codeVerifier)
    /\ proc[p].ret = CodeError("Invalid code verifier")

\* C6: no redemption is valid for a client other than the one the code was
\* issued to; before expiry such a redemption returns 'Client ID mismatch'.
C6_ClientMismatch ==
  \A p \in Procs :
    (Redeemed(p) /\ proc[p].a.code \in DOMAIN issued
       /\ proc[p].a.clientId # IssuedFor(p).req.clientId) =>
      /\ ~proc[p].ret.valid
      /\ (FoundRow(p) /\ proc[p].date <= IssuedFor(p).expiresAt)
           => proc[p].ret = CodeError("Client ID mismatch")

C6_OtherClientRefused ==
  \E p \in Procs :
    /\ Redeemed(p) /\ proc[p].a.code \in DOMAIN issued
    /\ proc[p].a.clientId # IssuedFor(p).req.clientId
    /\ proc[p].ret = CodeError("Client ID mismatch")

\* C7: no redemption is valid with a redirect URI other than the one
\* recorded at issuance; before expiry, presented by the owning client, such
\* a redemption returns 'Redirect URI mismatch'.
C7_RedirectMismatch ==
  \A p \in Procs :
    (Redeemed(p) /\ proc[p].a.code \in DOMAIN issued
       /\ proc[p].a.redirectUri # IssuedFor(p).req.redirectUri) =>
      /\ ~proc[p].ret.valid
      /\ ( /\ FoundRow(p)
           /\ proc[p].date <= IssuedFor(p).expiresAt
           /\ proc[p].a.clientId = IssuedFor(p).req.clientId )
           => proc[p].ret = CodeError("Redirect URI mismatch")

C7_OtherRedirectRefused ==
  \E p \in Procs :
    /\ Redeemed(p) /\ proc[p].a.code \in DOMAIN issued
    /\ proc[p].a.redirectUri # IssuedFor(p).req.redirectUri
    /\ proc[p].ret = CodeError("Redirect URI mismatch")

\* C8 as claimed: a valid redemption returns exactly the scope and resource
\* generateAuthorizationCode was given, and the code's row is gone.
C8_ReturnsWhatWasPassed ==
  \A p \in Procs :
    RedeemedValid(p) =>
      /\ proc[p].ret.scope = IssuedFor(p).req.scope
      /\ proc[p].ret.resource = IssuedFor(p).req.resource
      /\ proc[p].a.code \notin DOMAIN codes

\* C8 as amended: a valid redemption returns the scope and resource
\* generateAuthorizationCode was given, an omitted or empty one as null, and
\* the code's row is gone.
AsStored(x) == IF x = Undefined \/ x = "" THEN Null ELSE x

C8_ReturnsWhatWasStored ==
  \A p \in Procs :
    RedeemedValid(p) =>
      /\ proc[p].ret.scope = AsStored(IssuedFor(p).req.scope)
      /\ proc[p].ret.resource = AsStored(IssuedFor(p).req.resource)
      /\ proc[p].a.code \notin DOMAIN codes

C8_RedeemedEmptyScope ==
  \E p \in Procs :
    /\ RedeemedValid(p)
    /\ IssuedFor(p).req.scope = ""
    /\ proc[p].ret.scope = Null
    /\ proc[p].a.code \notin DOMAIN codes

\* validateRefreshToken of process p has returned.
ValidatedRefresh(p) == proc[p].op = "validateRefreshToken" /\ proc[p].pc = "done"

\* validateAccessToken of process p has returned.
ValidatedAccess(p) == proc[p].op = "validateAccessToken" /\ proc[p].pc = "done"

\* C9: when validateAuthorizationCode has returned 'Authorization code
\* expired', or validateRefreshToken 'Refresh token expired', the row of
\* that code or token is not in the store.
C9_ExpiredRowDeleted ==
  \A p \in Procs :
    /\ (Redeemed(p) /\ proc[p].ret = CodeError("Authorization code expired"))
         => proc[p].a.code \notin DOMAIN codes
    /\ (ValidatedRefresh(p) /\ proc[p].ret = RefreshError("Refresh token expired"))
         => proc[p].a.token \notin DOMAIN refresh

C9_ExpiredCodeReported ==
  \E p \in Procs :
    /\ Redeemed(p)
    /\ FoundRow(p)
    /\ proc[p].date > proc[p].row.expires_at
    /\ proc[p].ret = CodeError("Authorization code expired")
    /\ proc[p].a.code \notin DOMAIN codes

\* The validations of a pair's tokens that began after revokeRefreshToken
\* returned for its refresh token were refused.
RefusedAfterRevoke(n) ==
  \A p \in Procs :
    /\ (ValidatedAccess(p) /\ proc[p].after /\ proc[p].a.token = AccessTokenOf(n))
         => proc[p].ret = FALSE
    /\ (ValidatedRefresh(p) /\ proc[p].after /\ proc[p].a.token = RefreshTokenOf(n))
         => ~proc[p].ret.valid

\* C10 as claimed: once revokeRefreshToken(R) has returned, the rows of R and
\* of the access token minted with it are both gone, and every later
\* validation of either is refused.
C10_BothRowsGone ==
  \A n \in Returned :
    RefreshTokenOf(n) \in revoked =>
      /\ RefreshTokenOf(n) \notin DOMAIN refresh
      /\ AccessTokenOf(n) \notin DOMAIN access
      /\ RefusedAfterRevoke(n)

\* C10 as amended: once revokeRefreshToken(R) has returned, the row of R is
\* gone, the row of the access token minted with it is gone or has expired,
\* and every later validation of either is refused.
C10_RevokedPairDead ==
  \A n \in Returned :
    RefreshTokenOf(n) \in revoked =>
      /\ RefreshTokenOf(n) \notin DOMAIN refresh
      /\ AccessTokenOf(n) \in DOMAIN access
           => access[AccessTokenOf(n)].expires_at < now
      /\ RefusedAfterRevoke(n)

C10_LiveTokenRevoked ==
  \E n \in Returned, p \in Procs :
    /\ RefreshTokenOf(n) \in revoked
    /\ now <= pairs[n].accessExpiresAt
    /\ ValidatedAccess(p) /\ proc[p].after
    /\ proc[p].a.token = AccessTokenOf(n)
    /\ proc[p].ret = FALSE

\* Process p takes the step on which its call of function op returns.
Returns(p, op) ==
  /\ proc[p].op = op
  /\ proc[p].pc # "done"
  /\ proc'[p].pc = "done"

\* The store holds a row for key k of table whose expiry is not in the past.
Live(table, k) == k \in DOMAIN table /\ ~(now > table[k].expires_at)

\* generateTokenPair of process p has returned the pair (it did not throw).
Minted(p) ==
  /\ proc[p].op = "generateTokenPair"
  /\ proc[p].pc = "done"
  /\ proc[p].ret # Thrown

\* C11: when generateTokenPair has ended, by a return or by a throw, the two
\* rows of its pair are both in the store or both absent; and when
\* revokeRefreshToken has ended for the refresh token of a returned pair that
\* has not reached its first expiry, the two rows are both in the store or
\* both absent.
C11_PairedRows ==
  \A p \in Procs :
    /\ (proc[p].op = "generateTokenPair" /\ proc[p].pc = "done")
         => (proc[p].a.accessToken \in DOMAIN access
               <=> proc[p].a.refreshToken \in DOMAIN refresh)
    /\ \A n \in Returned :
         ( /\ proc[p].op = "revokeRefreshToken" /\ proc[p].pc = "done"
           /\ proc[p].a.token = RefreshTokenOf(n)
           /\ now <= pairs[n].accessExpiresAt )
         => (AccessTokenOf(n) \in DOMAIN access
               <=> RefreshTokenOf(n) \in DOMAIN refresh)

\* C12 as claimed: after generateTokenPair has returned {A, R}, the store
\* holds the row of A linked to R and the row of R linked to A, both with the
\* clientId, scope and resource that were passed in.
C12_RowsAsPassed ==
  \A p \in Procs :
    Minted(p) =>
      LET a == proc[p].a IN
        /\ a.accessToken \in DOMAIN access
        /\ access[a.accessToken] =
             [client_id |-> a.clientId, expires_at |-> a.accessExpiresAt,
              scope |-> a.scope, resource |-> a.resource,
              refresh_token |-> a.refreshToken]
        /\ a.refreshToken \in DOMAIN refresh
        /\ refresh[a.refreshToken] =
             [client_id |-> a.clientId, expires_at |-> a.refreshExpiresAt,
              scope |-> a.scope, resource |-> a.resource,
              access_token |-> a.accessToken]

\* C12 as amended: when generateTokenPair returns {A, R}, the store holds the
\* row of A linked to R and the row of R linked to A, both with the clientId
\* that was passed in and with the scope and resource that were passed in, an
\* omitted or empty one as null; a row is missing only if its expiry has
\* passed by then.
C12_RowsAsStored ==
  [][\A p \in Procs :
       (Returns(p, "generateTokenPair") /\ proc'[p].ret # Thrown) =>
         LET a == proc[p].a IN
           /\ a.accessExpiresAt >= now =>
                /\ a.accessToken \in DOMAIN access'
                /\ access'[a.accessToken] =
                     [client_id |-> a.clientId, expires_at |-> a.accessExpiresAt,
                      scope |-> AsStored(a.scope), resource |-> AsStored(a.resource),
                      refresh_token |-> a.refreshToken]
           /\ a.refreshExpiresAt >= now =>
                /\ a.refreshToken \in DOMAIN refresh'
                /\ refresh'[a.refreshToken] =
                     [client_id |-> a.clientId, expires_at |-> a.refreshExpiresAt,
                      scope |-> AsStored(a.scope), resource |-> AsStored(a.resource),
                      access_token |-> a.accessToken]]_vars

C12_MintedWithoutScope ==
  \E p \in Procs :
    /\ Minted(p)
    /\ proc[p].a.scope = Undefined
    /\ proc[p].a.accessToken \in DOMAIN access
    /\ access[proc[p].a.accessToken].scope = Null
    /\ access[proc[p].a.accessToken].refresh_token = proc[p].a.refreshToken
    /\ proc[p].a.refreshToken \in DOMAIN refresh
    /\ refresh[proc[p].a.refreshToken].access_token = proc[p].a.accessToken

\* C13: validateAccessToken(t) returns true exactly when the store holds a
\* row for t whose expiry is not in the past; when it returns having found
\* the row expired, the row is deleted; when the row is live, the call leaves
\* the store unchanged.
C13_TrueIffLive ==
  [][\A p \in Procs :
       Returns(p, "validateAccessToken") =>
         /\ proc'[p].ret = TRUE <=> Live(access, proc[p].a.token)
         /\ (proc[p].a.token \in DOMAIN access /\ ~Live(access, proc[p].a.token))
              => /\ proc'[p].ret = FALSE
                 /\ proc[p].a.token \notin DOMAIN access'
         /\ Live(access, proc[p].a.token) => store' = store]_vars

\* C14: validateRefreshToken(t) returns 'Invalid refresh token' when the
\* store holds no row for t, 'Refresh token expired' when the row is past its
\* expiry, and otherwise valid=true with the client_id, scope and resource of
\* the row.
C14_ResultByRow ==
  [][\A p \in Procs :
       Returns(p, "validateRefreshToken") =>
         LET t == proc[p].a.token IN
           /\ t \notin DOMAIN refresh
                => proc'[p].ret = RefreshError("Invalid refresh token")
           /\ (t \in DOMAIN refresh /\ ~Live(refresh, t))
                => proc'[p].ret = RefreshError("Refresh token expired")
           /\ Live(refresh, t)
                => proc'[p].ret = RefreshResult(TRUE, Undefined, refresh[t].client_id,
                                                refresh[t].scope, refresh[t].resource)]_vars

\* C15: a validateRefreshToken call that returns when its token is past its
\* expiry, or after revokeRefreshToken has returned for it, returns
\* valid=false with 'Invalid refresh token' or 'Refresh token expired'.
C15_InvalidOrExpiredOnly ==
  [][\A p \in Procs : \A n \in Returned :
       ( /\ Returns(p, "validateRefreshToken")
         /\ proc[p].a.token = RefreshTokenOf(n)
         /\ RefreshTokenOf(n) \in revoked \/ now > pairs[n].refreshExpiresAt )
       => proc'[p].ret \in {RefreshError("Invalid refresh token"),
                            RefreshError("Refresh token expired")}]_vars

\* Pair n has been exchanged: a generateTokenPair was called with the result
\* of a valid validateRefreshToken of its refresh token.
Exchanged(n) == \E m \in Exchanges : pairs[m].from = RefreshTokenOf(n)

\* Process p takes the step of revokeRefreshToken that deletes row k of the
\* access tokens, or row k of the refresh tokens.
RevokesAccess(p, k) ==
  /\ proc[p].op = "revokeRefreshToken"
  /\ proc[p].pc = "deleteAccess"
  /\ proc[p].row.access_token = k
  /\ proc'[p].pc = "deleteRefresh"

RevokesRefresh(p, k) ==
  /\ proc[p].op = "revokeRefreshToken"
  /\ proc[p].pc = "deleteRefresh"
  /\ proc[p].a.token = k
  /\ proc'[p].pc = "done"
  /\ proc'[p].ret = Void

\* C16: once a pair {A, R} has been exchanged, the row of A leaves the store
\* only after A's expiry or by revokeRefreshToken(R), the row of R only after
\* R's expiry or by revokeRefreshToken(R), and while a row is in the store and
\* not past its expiry every validation of its token returns valid.
C16_OldPairLingers ==
  [][\A n \in Returned :
       Exchanged(n) =>
         LET A == AccessTokenOf(n)
             R == RefreshTokenOf(n)
         IN /\ (A \in DOMAIN access /\ A \notin DOMAIN access')
                 => \/ now > pairs[n].accessExpiresAt
                    \/ \E p \in Procs : RevokesAccess(p, A)
            /\ (R \in DOMAIN refresh /\ R \notin DOMAIN refresh')
                 => \/ now > pairs[n].refreshExpiresAt
                    \/ \E p \in Procs : RevokesRefresh(p, R)
            /\ \A p \in Procs :
                 /\ (Returns(p, "validateAccessToken") /\ proc[p].a.token = A
                       /\ Live(access, A))
                      => proc'[p].ret = TRUE
                 /\ (Returns(p, "validateRefreshToken") /\ proc[p].a.token = R
                       /\ Live(refresh, R))
                      => proc'[p].ret.valid]_vars

\* The instant pair n was minted at.
MintedAt(n) == pairs[n].accessExpiresAt - TOKEN_EXPIRY_MS

\* C17: validateAccessToken of a returned pair's access token returns true
\* at the instant of the mint; after the access expiry and before the refresh
\* expiry validateAccessToken returns false and validateRefreshToken returns
\* valid=true with the data the pair was minted for; a pair minted from that
\* data is a pair as well, so its access token validates at the instant of
\* its mint.
C17_AccessExpiresFirst ==
  [][\A n \in Returned : \A p \in Procs :
       /\ (Returns(p, "validateAccessToken") /\ proc[p].a.token = AccessTokenOf(n))
            => /\ now = MintedAt(n) => proc'[p].ret = TRUE
               /\ (now > pairs[n].accessExpiresAt /\ now < pairs[n].refreshExpiresAt)
                    => proc'[p].ret = FALSE
       /\ ( /\ Returns(p, "validateRefreshToken")
            /\ proc[p].a.token = RefreshTokenOf(n)
            /\ now > pairs[n].accessExpiresAt
            /\ now < pairs[n].refreshExpiresAt )
            => proc'[p].ret = RefreshResult(TRUE, Undefined, pairs[n].req.clientId,
                                            AsStored(pairs[n].req.scope),
                                            AsStored(pairs[n].req.resource))]_vars

\* Process p takes a step of the sweep of its generateTokenPair.
SweepStep(p) ==
  /\ proc[p].op = "generateTokenPair"
  /\ proc[p].pc \in {"sweepAccess", "sweepRefresh", "sweepCodes"}
  /\ proc'[p] # proc[p]

\* No row of table has its expiry before date.
NoneExpired(table, date) == \A k \in DOMAIN table : ~(table[k].expires_at < date)

\* Every row of t that is not in u had its expiry before date, and every row
\* of t that is in u is the same row there.
OnlyExpiredRemoved(t, u, date) ==
  \A k \in DOMAIN t :
    IF k \in DOMAIN u THEN u[k] = t[k] ELSE t[k].expires_at < date

IssuedAt(c) == issued[c].expiresAt - AUTH_CODE_EXPIRY_MS

\* A generateTokenPair, and so its sweep, began after code c was issued and
\* has returned.
SweptOver(c) == \E n \in Returned : MintedAt(n) > IssuedAt(c)

\* C18: when the three DELETEs of a sweep have been answered, no row of any
\* table has its expiry before the sweep's `now`; a step of the sweep removes
\* only rows whose expiry is before that `now` and leaves the others as they
\* are; and a code that a sweep left in place is redeemed with valid=true by
\* a correct presentation that returns before the code's expiry.
C18_SweepsExpiredOnly ==
  [][\A p \in Procs :
       /\ CleanupCodes(p) =>
            /\ NoneExpired(codes', proc[p].a.sweepNow)
            /\ NoneExpired(access', proc[p].a.sweepNow)
            /\ NoneExpired(refresh', proc[p].a.sweepNow)
       /\ SweepStep(p) =>
            /\ OnlyExpiredRemoved(codes, codes', proc[p].a.sweepNow)
            /\ OnlyExpiredRemoved(access, access', proc[p].a.sweepNow)
            /\ OnlyExpiredRemoved(refresh, refresh', proc[p].a.sweepNow)
       /\ ( /\ Returns(p, "validateAuthorizationCode")
            /\ proc'[p].ret # Thrown
            /\ PresentsCorrectly(p)
            /\ proc[p].a.code \notin consumed
            /\ now <= IssuedFor(p).expiresAt
            /\ SweptOver(proc[p].a.code) )
            => proc'[p].ret.valid]_vars

C18_KeptCodeRedeemed ==
  \E p \in Procs :
    /\ RedeemedValid(p)
    /\ SweptOver(proc[p].a.code)
    /\ \A n \in Returned : pairs[n].accessExpiresAt > now

\* C19: under every interleaving, a step of a sweep removes only rows whose
\* expiry is before the clock at that step and leaves every other row as it
\* is; in particular it leaves the rows of the pair its own generateTokenPair
\* inserted while they are not past their expiry.
C19_SweepSparesLiveRows ==
  [][\A p \in Procs :
       SweepStep(p) =>
         /\ OnlyExpiredRemoved(codes, codes', now)
         /\ OnlyExpiredRemoved(access, access', now)
         /\ OnlyExpiredRemoved(refresh, refresh', now)
         /\ Live(access, proc[p].a.accessToken)
              => proc[p].a.accessToken \in DOMAIN access'
         /\ Live(refresh, proc[p].a.refreshToken)
              => proc[p].a.refreshToken \in DOMAIN refresh']_vars

\* A sweep is at its DELETE of the codes while another request is between
\* its SELECT and its DELETE, and a row of the store is expired and another
\* is live.
C19_SweepAmongRequests ==
  \E p, q \in Procs :
    /\ p # q
    /\ proc[p].op = "generateTokenPair" /\ proc[p].pc = "sweepCodes"
    /\ proc[q].pc \in {"deleteExpired", "consume", "deleteAccess", "deleteRefresh"}
    /\ \E c \in DOMAIN codes : codes[c].expires_at < proc[p].a.sweepNow
    /\ Live(access, proc[p].a.accessToken)

\* C20: in every store the program reaches and for the clock of that state,
\* a second run of cleanupExpiredTokens changes nothing after a first one,
\* whichever of its DELETEs are answered, and a run whose DELETEs are all
\* answered ends in the same store after a run that stopped early as by
\* itself.
C20_SweepIdempotent ==
  LET once == CleanupExpiredTokens(store, now) IN
    \A k \in 0..3 :
      /\ CleanupExpiredTokensUpTo(k, once, now) = once
      /\ CleanupExpiredTokens(CleanupExpiredTokensUpTo(k, store, now), now) = once

\* Two rows of one table are expired and a row is live.
C20_TwoExpiredRows ==
  /\ CleanupExpiredTokens(store, now) # store
  /\ \/ \E c, d \in DOMAIN codes :
          c # d /\ codes[c].expires_at < now /\ codes[d].expires_at < now
     \/ \E t, u \in DOMAIN access :
          t # u /\ access[t].expires_at < now /\ access[u].expires_at < now

\* Process p takes the step on which a DELETE of its sweep is not answered:
\* the sweep ends before its last DELETE, or at it with nothing deleted.
SweepFailure(p) ==
  /\ Returns(p, "generateTokenPair")
  /\ \/ proc[p].pc \in {"sweepAccess", "sweepRefresh"}
     \/ proc[p].pc = "sweepCodes" /\ store' = store

\* C21: when the two INSERTs of generateTokenPair were answered and a DELETE
\* of the sweep that follows is not, generateTokenPair returns the pair it
\* minted (it does not throw), the failing step changes no row, and the two
\* rows of the pair, unexpired at that time, are in the store as they were
\* inserted.
C21_SweepFailureSuppressed ==
  [][\A p \in Procs :
       SweepFailure(p) =>
         LET a == proc[p].a IN
           /\ proc'[p].ret = PairResult(a)
           /\ store' = store
           /\ ~(a.accessExpiresAt < now) =>
                /\ a.accessToken \in DOMAIN access'
                /\ access'[a.accessToken] = AccessRow(a)
           /\ ~(a.refreshExpiresAt < now) =>
                /\ a.refreshToken \in DOMAIN refresh'
                /\ refresh'[a.refreshToken] = RefreshRow(a)]_vars

\* A pair was returned with both rows in the store while a code that had
\* expired when the sweep read the clock is still there: the sweep failed.
C21_ReturnedAfterFailedSweep ==
  \E p \in Procs :
    /\ Minted(p)
    /\ proc[p].a.accessToken \in DOMAIN access
    /\ proc[p].a.refreshToken \in DOMAIN refresh
    /\ \E c \in DOMAIN codes : codes[c].expires_at < proc[p].a.sweepNow

\* C22: every row of a code, an access token or a refresh token that is past
\* its expiry is eventually deleted, whether or not another request arrives.
C22_ExpiredEventuallySwept ==
  /\ \A c \in 1..MaxIssued :
       (c \in DOMAIN codes /\ codes[c].expires_at < now)
         ~> (c \notin DOMAIN codes)
  /\ \A n \in 1..MaxIssued :
       /\ (AccessTokenOf(n) \in DOMAIN access
             /\ access[AccessTokenOf(n)].expires_at < now)
            ~> (AccessTokenOf(n) \notin DOMAIN access)
       /\ (RefreshTokenOf(n) \in DOMAIN refresh
             /\ refresh[RefreshTokenOf(n)].expires_at < now)
            ~> (RefreshTokenOf(n) \notin DOMAIN refresh)

\* The step of process p is the one its awaited query takes when the store
\* answers it.
Replied(p) ==
  \/ ValidateAuthorizationCodeSelect(p)
  \/ ValidateAuthorizationCodeDeleteExpired(p)
  \/ ValidateAuthorizationCodeConsume(p)
  \/ GenerateTokenPairInsertAccess(p)
  \/ GenerateTokenPairInsertRefresh(p)
  \/ ValidateAccessTokenSelect(p)
  \/ ValidateAccessTokenDeleteExpired(p)
  \/ ValidateRefreshTokenSelect(p)
  \/ ValidateRefreshTokenDeleteExpired(p)
  \/ RevokeRefreshTokenSelect(p)
  \/ RevokeRefreshTokenDeleteAccess(p)
  \/ RevokeRefreshTokenDeleteRefresh(p)

\* The call of process p ends on a query, not one of the sweep, that the
\* store did not answer.
StorageFailure(p) ==
  /\ proc[p].pc \notin {"idle", "done", "sweepAccess", "sweepRefresh", "sweepCodes"}
  /\ proc'[p].pc = "done"
  /\ ~Replied(p)

\* C23: a call that ends on a storage failure outside the sweep throws; it
\* returns no result.  (validateAccessToken has no step that throws.)
C23_StorageErrorsRethrown ==
  [][\A p \in Procs :
       StorageFailure(p) =>
         /\ proc[p].op # "validateAccessToken"
         /\ proc'[p].ret = Thrown]_vars

\* The call of process p that ends on this step.
Ends(p, op) ==
  /\ proc'[p] # proc[p]
  /\ proc'[p].op = op
  /\ proc'[p].pc = "done"

\* registerClient of process p returns on this step (it does not throw).
Registers(p) == Ends(p, "registerClient") /\ proc'[p].ret # Thrown

\* C24: the id a registerClient returns is the id of no row the table held
\* before, the registration leaves every row the table held as it was and
\* adds the row of that id; and as long as initializeDefaultClient has not
\* upserted that id, getClient of it is the record with the secret, the name
\* and the redirect URIs registerClient returned.
C24_UniqueAndStable ==
  [][/\ \A p \in Procs :
          Registers(p) =>
            LET id == proc'[p].ret.client_id IN
              /\ id \notin DOMAIN clients
              /\ DOMAIN clients' = DOMAIN clients \cup {id}
              /\ \A c \in DOMAIN clients : clients'[c] = clients[c]
     /\ \A id \in DOMAIN registered' :
          ~registered'[id].upserted =>
            LET found == getClient(clients', id)
                response == registered'[id].response
            IN /\ id \in DOMAIN clients'
               /\ found.client_id = id
               /\ found.client_secret = response.client_secret
               /\ found.client_name = response.client_name
               /\ found.redirect_uris = response.redirect_uris
     /\ \A p \in Procs :
          ( /\ Ends(p, "getClient")
            /\ proc'[p].ret # Thrown
            /\ proc'[p].a.clientId \in DOMAIN registered
            /\ ~registered[proc'[p].a.clientId].upserted )
          => /\ proc'[p].ret = getClient(clients, proc'[p].a.clientId)
             /\ proc'[p].ret.client_secret
                  = registered[proc'[p].a.clientId].response.client_secret]_vars

\* Two clients are registered, with one secret, and getClient has returned
\* the record of one of them.
C24_LookedUpAmongTwo ==
  \E p \in Procs :
    /\ proc[p].op = "getClient"
    /\ proc[p].ret \notin {Thrown, NoClient}
    /\ Cardinality(DOMAIN registered) = 2
    /\ \A id \in DOMAIN registered :
         /\ ~registered[id].upserted
         /\ registered[id].response.client_secret = "secret_1"
    /\ proc[p].a.clientId \in DOMAIN registered
    /\ proc[p].ret.client_name = "My App"

\* The defaults of registerClient.
Defaults ==
  [client_name |-> "Dynamic Client",
   redirect_uris |-> <<"https://chatgpt.com/aip/g-*/oauth/callback">>,
   grant_types |-> <<"authorization_code">>,
   response_types |-> <<"code">>,
   token_endpoint_auth_method |-> "client_secret_post"]

StringFields == {"client_name", "token_endpoint_auth_method"}
ArrayFields == {"redirect_uris", "grant_types", "response_types"}

\* The record `response` is the row the table holds for its id.
EqualsRow(response, table) ==
  /\ response.client_id \in DOMAIN table
  /\ table[response.client_id] =
       [client_secret |-> response.client_secret,
        client_name |-> response.client_name,
        redirect_uris |-> response.redirect_uris,
        grant_types |-> response.grant_types,
        response_types |-> response.response_types,
        token_endpoint_auth_method |-> response.token_endpoint_auth_method,
        created_at |-> response.client_id_issued_at]

\* C25 as claimed: the record registerClient returns has the default of every
\* field the request omits and the request's value of every field it
\* supplies, equals the row the table holds, and has
\* client_secret_expires_at = 0.
C25_SuppliedFieldsKept ==
  [][\A p \in Procs :
       Registers(p) =>
         LET request == proc'[p].a
             response == proc'[p].ret
         IN /\ \A f \in StringFields \cup ArrayFields :
                 response[f] = IF f \in DOMAIN request THEN request[f] ELSE Defaults[f]
            /\ EqualsRow(response, clients')
            /\ response.client_secret_expires_at = 0]_vars

\* C25 as amended: a field the request omits or supplies as the empty string
\* gets its default, an array the request supplies is kept even when empty,
\* the scope of the request is not in the record; the record equals the row
\* the table holds and has client_secret_expires_at = 0.
C25_DefaultsForFalsy ==
  [][\A p \in Procs :
       Registers(p) =>
         LET request == proc'[p].a
             response == proc'[p].ret
         IN /\ \A f \in StringFields :
                 response[f] = IF f \in DOMAIN request /\ request[f] # ""
                               THEN request[f] ELSE Defaults[f]
            /\ \A f \in ArrayFields :
                 response[f] = IF f \in DOMAIN request THEN request[f] ELSE Defaults[f]
            /\ "scope" \notin DOMAIN response
            /\ EqualsRow(response, clients')
            /\ response.client_secret_expires_at = 0]_vars

\* A request with no body was registered with every default, and one with an
\* empty name and an empty list of redirect URIs under the default name and
\* with no redirect URI.
C25_RegisteredWithDefaults ==
  /\ \E id \in DOMAIN registered :
       /\ registered[id].response.grant_types = <<"authorization_code">>
       /\ registered[id].response.redirect_uris
            = <<"https://chatgpt.com/aip/g-*/oauth/callback">>
       /\ EqualsRow(registered[id].response, clients)
  /\ \E p \in Procs :
       /\ proc[p].op = "registerClient"
       /\ proc[p].ret # Thrown
       /\ "client_name" \in DOMAIN proc[p].a
       /\ proc[p].a.client_name = ""
       /\ proc[p].ret.client_name = "Dynamic Client"
       /\ proc[p].ret.redirect_uris = <<>>

\* C26: validateClientCredentials(id, secret) returns true exactly when the
\* table holds a row of that id with that secret or (id, secret) is the pair
\* of the environment, whatever row the table holds for the id of the
\* environment.
C26_RegisteredOrFallback ==
  [][\A p \in Procs :
       (Ends(p, "validateClientCredentials") /\ proc'[p].ret # Thrown) =>
         LET id == proc'[p].a.clientId
             secret == proc'[p].a.clientSecret
             fallback == getOAuthCredentials(env)
         IN proc'[p].ret.value
              <=> \/ id \in DOMAIN clients /\ clients[id].client_secret = secret
                  \/ id = fallback.clientId /\ secret = fallback.clientSecret]_vars

\* C27: validateClientId(id) returns true exactly when the table holds a row
\* of that id or id is the client id of the environment.
C27_RegisteredOrFallbackId ==
  [][\A p \in Procs :
       (Ends(p, "validateClientId") /\ proc'[p].ret # Thrown) =>
         LET id == proc'[p].a.clientId IN
           proc'[p].ret.value
             <=> \/ id \in DOMAIN clients
                 \/ id = getOAuthCredentials(env).clientId]_vars

\* The id of the environment was accepted while the table held a registered
\* client and no row of that id: initializeDefaultClient has not run.
C27_FallbackIdWithoutRow ==
  \E p \in Procs :
    /\ proc[p].op = "validateClientId"
    /\ proc[p].ret = Boolean(TRUE)
    /\ proc[p].a.clientId = getOAuthCredentials(env).clientId
    /\ proc[p].a.clientId \notin DOMAIN clients
    /\ DOMAIN clients # {}

\* initializeDefaultClient of process p returns on this step.
Initializes(p) == Ends(p, "initializeDefaultClient") /\ proc'[p].ret = Void

\* C28: a call of initializeDefaultClient leaves one row for the client id of
\* the environment, with the secret of the environment, and every other row
\* as it was; a call that finds the row an earlier call with the same
\* environment left changes nothing, and so would a further call.
C28_IdempotentUpsert ==
  [][\A p \in Procs :
       Initializes(p) =>
         LET credentials == getOAuthCredentials(env)
             id == credentials.clientId
         IN /\ DOMAIN clients' = DOMAIN clients \cup {id}
            /\ clients'[id].client_secret = credentials.clientSecret
            /\ clients'[id].client_name = "Default MCP Client"
            /\ \A c \in DOMAIN clients \ {id} : clients'[c] = clients[c]
            /\ Seeded(clients, credentials) => clients' = clients
            /\ Seeded(clients', credentials)
            /\ \A date \in {now, now + 1} :
                 Upsert(clients', credentials, date) = clients']_vars

\* initializeDefaultClient has run again with the environment of an earlier
\* run, in a table that holds the row of another client.
C28_SeededTwice ==
  \E p \in Procs :
    /\ proc[p].op = "initializeDefaultClient"
    /\ proc[p].ret = Void
    /\ proc[p].after
    /\ Seeded(clients, getOAuthCredentials(env))
    /\ DOMAIN clients \ {getOAuthCredentials(env).clientId} # {}

\* C29: every step leaves every row of the client table in the table, and
\* leaves it as it was unless the step is initializeDefaultClient returning
\* and the row is the one of the client id of the environment; and every id a
\* registerClient returned has a row.
C29_RowsStay ==
  [][/\ \A c \in DOMAIN clients :
          /\ c \in DOMAIN clients'
          /\ clients'[c] # clients[c] =>
               /\ c = getOAuthCredentials(env).clientId
               /\ \E p \in Procs : Initializes(p)
     /\ DOMAIN registered' \subseteq DOMAIN clients']_vars

\* The expired row of a code was deleted and a minted pair was revoked, its
\* two rows gone, while the table of clients holds the row of a registered
\* client and the row of the default client, both as they were written.
C29_ClientsOutliveTokens ==
  /\ \E c \in DOMAIN issued : c \notin DOMAIN codes /\ c \notin consumed
  /\ \E n \in Returned :
       /\ RefreshTokenOf(n) \in revoked
       /\ RefreshTokenOf(n) \notin DOMAIN refresh
       /\ AccessTokenOf(n) \notin DOMAIN access
  /\ \E id \in DOMAIN registered : EqualsRow(registered[id].response, clients)
  /\ Seeded(clients, getOAuthCredentials(env))

\* The client id is that of no row of the table of clients and is not the
\* client id of the environment.
UnknownClient(clientId) ==
  /\ clientId \notin DOMAIN clients
  /\ clientId # getOAuthCredentials(env).clientId

\* C30: whatever clientId it is given, a generateAuthorizationCode that
\* returns has stored, under the code it returns, a row of that clientId that
\* expires 10 minutes from now; and a redemption that presents an unconsumed
\* code with the client id, redirect URI and verifier of its request, and
\* returns before the code expires, returns valid=true, whether or not the
\* client is known.
C30_NoClientValidation ==
  [][\A p \in Procs :
       /\ (Ends(p, "generateAuthorizationCode") /\ proc'[p].ret # Thrown) =>
            LET code == proc'[p].ret.code IN
              /\ code \notin DOMAIN codes
              /\ code \in DOMAIN codes'
              /\ codes'[code].client_id = proc'[p].a.clientId
              /\ codes'[code].expires_at = now + 10 * 60
       /\ ( /\ Returns(p, "validateAuthorizationCode")
            /\ proc'[p].ret # Thrown
            /\ PresentsCorrectly(p)
            /\ ~proc[p].after
            /\ now <= IssuedFor(p).expiresAt )
          => proc'[p].ret.valid]_vars

\* A code issued in the name of a client that is neither registered nor the
\* default client was redeemed by a presenter giving that client id, while
\* the table of clients holds the default client.
C30_UnknownClientRedeemed ==
  \E p \in Procs :
    /\ RedeemedValid(p)
    /\ proc[p].a.clientId = IssuedFor(p).req.clientId
    /\ UnknownClient(proc[p].a.clientId)
    /\ DOMAIN clients # {}

\* C31: revoked, expired and consumed are terminal. The clock does not go
\* back and a revoked token or a consumed code stays so; validateAccessToken
\* accepts a token only up to its expiry and only while its refresh token is
\* not revoked, validateRefreshToken accepts a token only up to its expiry and
\* only while it is not revoked, and validateAuthorizationCode returns
\* valid=true only for a code that is not yet consumed and not past its expiry.
C31_NeverAcceptedAgain ==
  [][/\ now <= now'
     /\ revoked \subseteq revoked'
     /\ consumed \subseteq consumed'
     /\ \A p \in Procs :
          /\ Returns(p, "validateAccessToken") =>
               \A n \in DOMAIN pairs :
                 (proc[p].a.token = AccessTokenOf(n) /\ proc'[p].ret = TRUE) =>
                   /\ RefreshTokenOf(n) \notin revoked
                   /\ now <= pairs[n].accessExpiresAt
          /\ Returns(p, "validateRefreshToken") =>
               \A n \in DOMAIN pairs :
                 (proc[p].a.token = RefreshTokenOf(n) /\ proc'[p].ret.valid) =>
                   /\ RefreshTokenOf(n) \notin revoked
                   /\ now <= pairs[n].refreshExpiresAt
          /\ (Returns(p, "validateAuthorizationCode") /\ proc'[p].ret # Thrown) =>
               (proc'[p].ret.valid =>
                  /\ proc[p].a.code \notin consumed
                  /\ proc[p].date <= IssuedFor(p).expiresAt)]_vars

\* C32: every minted pair has its access expiry strictly before its refresh
\* expiry, in the history and in the stored rows, so whenever an access row
\* is live (not past its expiry) the refresh token it is paired with is not
\* past its expiry either.
C32_AccessExpiresFirst ==
  /\ \A n \in DOMAIN pairs :
       /\ pairs[n].accessExpiresAt < pairs[n].refreshExpiresAt
       /\ (AccessTokenOf(n) \in DOMAIN access /\ RefreshTokenOf(n) \in DOMAIN refresh) =>
            /\ access[AccessTokenOf(n)].refresh_token = RefreshTokenOf(n)
            /\ access[AccessTokenOf(n)].expires_at < refresh[RefreshTokenOf(n)].expires_at
       /\ Live(access, AccessTokenOf(n)) => now <= pairs[n].refreshExpiresAt
  /\ \A t \in DOMAIN access :
       (Live(access, t) /\ access[t].refresh_token \in DOMAIN refresh) =>
         Live(refresh, access[t].refresh_token)

\* An access token is in its last live second, past the lifetime of a code,
\* and the row of its refresh token is stored and live.
C32_LastLiveSecond ==
  \E n \in Returned :
    /\ Live(access, AccessTokenOf(n))
    /\ now = access[AccessTokenOf(n)].expires_at
    /\ now > 0
    /\ Live(refresh, RefreshTokenOf(n))

\* C33: getTokenResponse is a function of its arguments alone. Its result
\* carries the given access and refresh tokens, token_type 'Bearer' and
\* expires_in 3600, has a scope field exactly when a non-empty scope was
\* given, and then that scope; the call leaves the store as it was, and two
\* calls with the same arguments return the same result whatever the store
\* holds.
C33_PureResponse ==
  [][\A p \in Procs :
       Ends(p, "getTokenResponse") =>
         LET a == proc'[p].a
             response == proc'[p].ret
         IN /\ response.access_token = a.accessToken
            /\ response.refresh_token = a.refreshToken
            /\ response.token_type = "Bearer"
            /\ response.expires_in = 3600
            /\ ("scope" \in DOMAIN response) <=> (a.scope \notin {Undefined, ""})
            /\ ("scope" \in DOMAIN response) => response.scope = a.scope
            /\ store' = store
            /\ (proc[p].op = "getTokenResponse" /\ proc[p].a = a) =>
                 response = proc[p].ret]_vars

\* A response without scope was built for an empty scope while the store
\* holds the rows of a returned pair.
C33_EmptyScopeOmitted ==
  \E p \in Procs, n \in Returned :
    /\ proc[p].op = "getTokenResponse"
    /\ proc[p].a.scope = ""
    /\ proc[p].a.accessToken = AccessTokenOf(n)
    /\ "scope" \notin DOMAIN proc[p].ret
    /\ AccessTokenOf(n) \in DOMAIN access

\* The refusals of validateAuthorizationCode that are not an expiry.
Mismatches ==
  {"Client ID mismatch", "Redirect URI mismatch", "Code verifier required",
   "Invalid code verifier"}

\* C34: a redemption refused for a client mismatch, a redirect mismatch, a
\* missing verifier or a wrong verifier changes nothing: the store and the
\* history are as before and the row of the code is still the one written at
\* issuance. A redemption that finds the row up to its expiry and presents
\* the right client, redirect URI and verifier is valid, however many
\* refusals came before it.
C34_FailureKeepsCode ==
  [][\A p \in Procs :
       (Returns(p, "validateAuthorizationCode") /\ proc'[p].ret # Thrown) =>
         /\ (~proc'[p].ret.valid /\ proc'[p].ret.error \in Mismatches) =>
              /\ store' = store
              /\ history' = history
              /\ proc[p].a.code \in DOMAIN codes'
              /\ codes'[proc[p].a.code] =
                   CodeRow(IssuedFor(p).req, IssuedFor(p).expiresAt)
         /\ (/\ PresentsCorrectly(p)
             /\ proc'[p].row # NoRow
             /\ proc'[p].date <= IssuedFor(p).expiresAt) =>
              proc'[p].ret.valid]_vars

\* One request was refused for a wrong verifier, and a request that read the
\* row at a later time redeemed the same code.
C34_RedeemedAfterRefusal ==
  /\ Redeemed(1)
  /\ proc[1].ret = CodeError("Invalid code verifier")
  /\ RedeemedValid(2)
  /\ proc[2].a.code = proc[1].a.code
  /\ proc[1].date < proc[2].date

\* C35: validateAuthorizationCode reports the first check that fails, in the
\* order absent, expired, client, redirect URI, PKCE. A code whose row is
\* not found is invalid whatever else is presented; a code read after its
\* expiry is reported expired and its row deleted, whatever client, redirect
\* URI and verifier are presented; before that a wrong client is a client
\* mismatch whatever redirect URI and verifier are presented, then a wrong
\* redirect URI is a redirect mismatch whatever verifier is presented, and
\* only then is the verifier looked at.
C35_FirstFailingCheck ==
  \A p \in Procs :
    Redeemed(p) =>
      IF ~FoundRow(p)
      THEN proc[p].ret = CodeError("Invalid authorization code")
      ELSE IF proc[p].date > IssuedFor(p).expiresAt
      THEN /\ proc[p].ret = CodeError("Authorization code expired")
           /\ proc[p].a.code \notin DOMAIN codes
      ELSE IF proc[p].a.clientId # IssuedFor(p).req.clientId
      THEN proc[p].ret = CodeError("Client ID mismatch")
      ELSE IF proc[p].a.redirectUri # IssuedFor(p).req.redirectUri
      THEN proc[p].ret = CodeError("Redirect URI mismatch")
      ELSE IF PkceRequired(IssuedFor(p).req) /\ ~Supplied(proc[p].a.codeVerifier)
      THEN proc[p].ret = CodeError("Code verifier required")
      ELSE IF PkceRequired(IssuedFor(p).req) /\ ~VerifierMatches(p)
      THEN proc[p].ret = CodeError("Invalid code verifier")
      ELSE proc[p].ret.valid

\* A code read after its expiry and presented with another client, another
\* redirect URI and a wrong verifier was reported expired and its row is gone.
C35_ExpiredBeforeMismatch ==
  \E p \in Procs :
    /\ Redeemed(p) /\ FoundRow(p)
    /\ PkceRequired(IssuedFor(p).req)
    /\ proc[p].a.clientId # IssuedFor(p).req.clientId
    /\ proc[p].a.redirectUri # IssuedFor(p).req.redirectUri
    /\ Supplied(proc[p].a.codeVerifier) /\ ~VerifierMatches(p)
    /\ proc[p].ret = CodeError("Authorization code expired")
    /\ proc[p].a.code \notin DOMAIN codes

Without(before, after, gone) ==
  /\ DOMAIN before \ gone \subseteq DOMAIN after
  /\ DOMAIN after \subseteq DOMAIN before
  /\ \A k \in DOMAIN after : after[k] = before[k]

\* C37: a step of revokeRefreshToken(R) removes no row but that of R and that
\* of the access token linked in R's row, and changes no code, no other token
\* row and no client; a pair minted through a refresh exchange of R keeps
\* validating once R is revoked: while a row of it is in the store and not
\* past its expiry, every validation of its token returns valid.
C37_RevokesOnlyItsPair ==
  [][\A p \in Procs :
       /\ (proc[p].op = "revokeRefreshToken" /\ proc'[p] # proc[p]) =>
            /\ codes' = codes
            /\ registry' = registry
            /\ Without(refresh, refresh', {proc[p].a.token})
            /\ Without(access, access',
                       IF proc[p].row = NoRow THEN {} ELSE {proc[p].row.access_token})
       /\ \A m \in Exchanges \cap Returned :
            pairs[m].from \in revoked =>
              /\ (Returns(p, "validateAccessToken")
                    /\ proc[p].a.token = AccessTokenOf(m)
                    /\ Live(access, AccessTokenOf(m)))
                   => proc'[p].ret = TRUE
              /\ (Returns(p, "validateRefreshToken")
                    /\ proc[p].a.token = RefreshTokenOf(m)
                    /\ Live(refresh, RefreshTokenOf(m)))
                   => proc'[p].ret.valid]_vars

\* Process p takes the DELETE step of the expired branch of a validation.
LazyDeletion(p) ==
  /\ proc[p].op \in {"validateAuthorizationCode", "validateAccessToken",
                     "validateRefreshToken"}
  /\ proc[p].pc = "deleteExpired"
  /\ proc'[p].pc = "done"

\* C38: in every interleaving of two requests, the DELETE of the expired
\* branch of a validation removes at most the row of the presented value, and
\* that row was read past its expiry; a row that is not past its expiry
\* leaves the store only in the consuming DELETE of a valid redemption of
\* that code or in a DELETE of revokeRefreshToken.
C38_OnlyExpiredLazilyDeleted ==
  [][/\ \A p \in Procs :
          LazyDeletion(p) =>
            /\ proc[p].date > proc[p].row.expires_at
            /\ now >= proc[p].date
            /\ Without(codes, codes',
                       IF proc[p].op = "validateAuthorizationCode"
                       THEN {proc[p].a.code} ELSE {})
            /\ Without(access, access',
                       IF proc[p].op = "validateAccessToken"
                       THEN {proc[p].a.token} ELSE {})
            /\ Without(refresh, refresh',
                       IF proc[p].op = "validateRefreshToken"
                       THEN {proc[p].a.token} ELSE {})
     /\ \A c \in DOMAIN codes :
          (Live(codes, c) /\ c \notin DOMAIN codes') =>
            \E p \in Procs :
              /\ proc[p].op = "validateAuthorizationCode"
              /\ proc[p].pc = "deleteConsumed"
              /\ proc[p].a.code = c
              /\ proc'[p].pc = "done"
              /\ proc'[p].ret # Thrown
              /\ proc'[p].ret.valid
     /\ \A t \in DOMAIN access :
          (Live(access, t) /\ t \notin DOMAIN access') =>
            \E p \in Procs : RevokesAccess(p, t)
     /\ \A t \in DOMAIN refresh :
          (Live(refresh, t) /\ t \notin DOMAIN refresh') =>
            \E p \in Procs : RevokesRefresh(p, t)]_vars

\* One request's validateAccessToken deleted the expired access row of a
\* pair while the other request's validateRefreshToken found the pair's
\* refresh token valid, and the refresh row is still stored.
C38_ExpiredGoneLiveKept ==
  \E n \in Returned, p, q \in Procs :
    /\ ValidatedAccess(p)
    /\ proc[p].a.token = AccessTokenOf(n)
    /\ proc[p].row # NoRow
    /\ proc[p].date > proc[p].row.expires_at
    /\ AccessTokenOf(n) \notin DOMAIN access
    /\ ValidatedRefresh(q)
    /\ proc[q].a.token = RefreshTokenOf(n)
    /\ proc[q].ret.valid
    /\ proc[q].date >= proc[p].date
    /\ Live(refresh, RefreshTokenOf(n))

\* C39: whatever the store holds, a step of revokeRefreshToken whose query is
\* answered raises no error, and when the call returns no row of the given
\* token is stored. When the SELECT finds no row of the token the call
\* changes nothing; when the row of the linked access token is already gone
\* its DELETE changes nothing and the call goes on to delete the refresh row.
C39_RevokeAlwaysCompletes ==
  [][\A p \in Procs :
       (proc[p].op = "revokeRefreshToken" /\ proc[p].pc # "done" /\ Replied(p)) =>
         LET token == proc[p].a.token IN
         /\ proc'[p].ret # Thrown
         /\ proc'[p].pc = "done" =>
              /\ proc'[p].ret = Void
              /\ token \notin DOMAIN refresh'
         /\ (proc[p].pc = "select" /\ token \notin DOMAIN refresh) =>
              /\ proc'[p].pc = "deleteRefresh"
              /\ proc'[p].row = NoRow
         /\ (proc[p].pc = "deleteRefresh" /\ proc[p].row = NoRow) => store' = store
         /\ (proc[p].pc = "deleteAccess"
               /\ proc[p].row.access_token \notin DOMAIN access) =>
              /\ store' = store
              /\ proc'[p].pc = "deleteRefresh"
         /\ (proc[p].pc = "deleteRefresh" /\ proc[p].row # NoRow) =>
              /\ refresh' = Remove(refresh, token)
              /\ access' = access /\ codes' = codes]_vars

\* revokeRefreshToken returned for a refresh token whose row it had read,
\* beside a validateAccessToken call, begun before the revocation was over,
\* that read the linked access row as expired; neither row is stored.
C39_RevokedWithoutAccessRow ==
  \E n \in Returned, p, q \in Procs :
    /\ proc[p].op = "revokeRefreshToken" /\ proc[p].pc = "done"
    /\ proc[p].ret = Void
    /\ proc[p].a.token = RefreshTokenOf(n)
    /\ proc[p].row # NoRow
    /\ ValidatedAccess(q)
    /\ proc[q].a.token = AccessTokenOf(n)
    /\ proc[q].row # NoRow
    /\ proc[q].date > proc[q].row.expires_at
    /\ ~proc[q].after
    /\ AccessTokenOf(n) \notin DOMAIN access
    /\ RefreshTokenOf(n) \notin DOMAIN refresh

\* What generateTokenPair computed for pair n, from the history.
MintArgs(n) ==
  [clientId |-> pairs[n].req.clientId, scope |-> pairs[n].req.scope,
   resource |-> pairs[n].req.resource,
   accessToken |-> AccessTokenOf(n), refreshToken |-> RefreshTokenOf(n),
   accessExpiresAt |-> pairs[n].accessExpiresAt,
   refreshExpiresAt |-> pairs[n].refreshExpiresAt]

\* Every stored row is the row written at its issuance.
RowsAsIssued ==
  /\ \A c \in DOMAIN codes : codes[c] = CodeRow(issued[c].req, issued[c].expiresAt)
  /\ \A n \in DOMAIN pairs :
       /\ AccessTokenOf(n) \in DOMAIN access =>
            access[AccessTokenOf(n)] = AccessRow(MintArgs(n))
       /\ RefreshTokenOf(n) \in DOMAIN refresh =>
            refresh[RefreshTokenOf(n)] = RefreshRow(MintArgs(n))

\* Every row a validation has read is the row written at issuance, and a
\* valid result carries its attributes.
ReadAsIssued ==
  \A p \in Procs :
    proc[p].row # NoRow =>
      /\ proc[p].op = "validateAuthorizationCode" =>
           /\ proc[p].row = CodeRow(IssuedFor(p).req, IssuedFor(p).expiresAt)
           /\ RedeemedValid(p) =>
                /\ proc[p].ret.scope = proc[p].row.scope
                /\ proc[p].ret.resource = proc[p].row.resource
      /\ \A n \in DOMAIN pairs :
           /\ (proc[p].op = "validateAccessToken" /\ proc[p].a.token = AccessTokenOf(n)) =>
                proc[p].row = AccessRow(MintArgs(n))
           /\ (proc[p].op = "validateRefreshToken" /\ proc[p].a.token = RefreshTokenOf(n)) =>
                /\ proc[p].row = RefreshRow(MintArgs(n))
                /\ (proc[p].pc = "done" /\ proc[p].ret.valid) =>
                     /\ proc[p].ret.clientId = pairs[n].req.clientId
                     /\ proc[p].ret.scope = OrNull(pairs[n].req.scope)
                     /\ proc[p].ret.resource = OrNull(pairs[n].req.resource)

\* C40: a code or token row is the same from its insertion to its deletion:
\* a step changes no field (client, redirect URI, challenge, scope, resource,
\* expiry, pair link) of a row that is stored before and after it, so every
\* stored row is the row written at issuance and every redemption and
\* validation reads the attributes written at issuance.
C40_RowsImmutable ==
  [][/\ \A c \in DOMAIN codes \cap DOMAIN codes' : codes'[c] = codes[c]
     /\ \A t \in DOMAIN access \cap DOMAIN access' : access'[t] = access[t]
     /\ \A t \in DOMAIN refresh \cap DOMAIN refresh' : refresh'[t] = refresh[t]
     /\ RowsAsIssued'
     /\ ReadAsIssued']_vars

\* Later than the mint, validateRefreshToken returned valid with the client,
\* scope and resource the pair was minted for, and the row is still the one
\* written at the mint.
C40_ValidatedAsMinted ==
  \E n \in Returned, p \in Procs :
    /\ ValidatedRefresh(p)
    /\ proc[p].a.token = RefreshTokenOf(n)
    /\ proc[p].ret.valid
    /\ proc[p].date > MintedAt(n)
    /\ proc[p].ret.clientId = pairs[n].req.clientId
    /\ RefreshTokenOf(n) \in DOMAIN refresh
    /\ refresh[RefreshTokenOf(n)] = RefreshRow(MintArgs(n))

====
